---- MODULE Spec2Model ----
(***************************************************************************)
(* MarkFlowEditor: the cross-file variable service                        *)
(* (services/crossFileVariableService.ts), the application reducer and    *)
(* the auto-save effect (contexts/AppContext.tsx), the projections of the *)
(* Preview (components/Preview/Preview.tsx), the table editor             *)
(* (components/Editor/BlockEditor.tsx) and the Execute Prompt handler     *)
(* (components/Layout/Header.tsx).                                         *)
(*                                                                         *)
(* Text is a sequence of one-character strings, so that the regular       *)
(* expressions of the source are executed character by character.         *)
(***************************************************************************)
EXTENDS Integers, Sequences, FiniteSets, TLC

VARIABLES
    project,          \* AppState.project: [files, globalVariables]
    currentFileId,    \* AppState.currentFileId
    saveStatus,       \* AppState.saveStatus
    resolvedCache,    \* CrossFileVariableService.resolvedCache (cacheKey -> value)
    dependencyGraph,  \* CrossFileVariableService.dependencyGraph
    ret,              \* the last call of the service / Preview and what it returned
    served,           \* per cacheKey: the value of the last 'resolved' answer since the last clearCache
    rows,             \* the row arrays of the tables (address -> cells); a table's content.rows
                      \* holds addresses, so that two contents can share a row array
    isLoading,        \* AppState.isLoading
    appError,         \* AppState.error
    saveTimeout,      \* the pending timer of saveTimeoutRef.current: <<the project it closes over>>
    saving,           \* the timer callback waiting for storageService.saveProject: <<its project>>
    storage,          \* localStorage: <<the project last written by storageService.saveProject>>
    effectDeps,       \* <<project, isLoading, saveStatus>> at the last run of the auto-save effect
    exec,             \* the call of Header.handleExecutePrompt in flight: <<the state it closes over>>
    inlined,          \* history: the blocks made by INLINE_EMBEDDED_BLOCK and the source of each
    walk              \* the call of buildDependencyGraph whose depth-first search is under way:
                      \* <<its locals and the frames of dfs>>

\* the state of the table rows, the provider and the header
uiVars == <<rows, isLoading, appError, saveTimeout, saving, storage, effectDeps, exec, inlined, walk>>

vars == <<project, currentFileId, saveStatus, resolvedCache, dependencyGraph, ret, served,
          rows, isLoading, appError, saveTimeout, saving, storage, effectDeps, exec, inlined, walk>>

----------------------------------------------------------------------------
(* Bounds of the model *)

MaxVariables == 1     \* variables of a project under Spec, local and global together

----------------------------------------------------------------------------
(* Characters and character classes of the regular expressions *)

LowerSeq == <<"a","b","c","d","e","f","g","h","i","j","k","l","m",
              "n","o","p","q","r","s","t","u","v","w","x","y","z">>
UpperSeq == <<"A","B","C","D","E","F","G","H","I","J","K","L","M",
              "N","O","P","Q","R","S","T","U","V","W","X","Y","Z">>
Lower == {LowerSeq[i] : i \in 1..26}
Upper == {UpperSeq[i] : i \in 1..26}
Digit == {"0","1","2","3","4","5","6","7","8","9"}
Space == {" ", "\n", "\t"}

NameChar == Lower \cup Upper \cup Digit \cup {"_", "-"}    \* [a-zA-Z0-9_-]
WordChar == Lower \cup Upper \cup Digit \cup {"_"}         \* [a-zA-Z0-9_]
VarStart == Upper \cup {"_"}                               \* [A-Z_]
VarRest  == Upper \cup Digit \cup {"_"}                    \* [A-Z0-9_]

ToLower(c) == IF c \in Upper
              THEN LowerSeq[CHOOSE i \in 1..26 : UpperSeq[i] = c]
              ELSE c

Undefined == <<"undefined">>   \* an absent optional field (never a text: texts hold single characters)
Null == "null"                 \* a null file id

----------------------------------------------------------------------------
(* String primitives *)

StartsWithAt(s, i, lit) ==
    /\ i >= 1
    /\ i + Len(lit) - 1 <= Len(s)
    /\ \A k \in 1..Len(lit) : s[i + k - 1] = lit[k]

StartsWith(s, lit) == StartsWithAt(s, 1, lit)

EndsWithCI(s, lit) ==
    /\ Len(lit) <= Len(s)
    /\ \A k \in 1..Len(lit) : ToLower(s[Len(s) - Len(lit) + k]) = lit[k]

Slice(s, from) == SubSeq(s, from, Len(s))    \* String.slice(from - 1)

Min(S) == CHOOSE x \in S : \A y \in S : x <= y

\* index after the longest run of characters of class C that starts at i
SpanWhile(s, i, C) ==
    IF i > Len(s) THEN i
    ELSE Min({j \in i..(Len(s) + 1) : j = Len(s) + 1 \/ s[j] \notin C})

\* index after the longest run of characters different from c that starts at i
SpanUntil(s, i, c) ==
    IF i > Len(s) THEN i
    ELSE Min({j \in i..(Len(s) + 1) : j = Len(s) + 1 \/ s[j] = c})

RECURSIVE TrimLeft(_)
TrimLeft(s) == IF s # <<>> /\ s[1] \in Space THEN TrimLeft(Tail(s)) ELSE s

RECURSIVE TrimRight(_)
TrimRight(s) ==
    IF s # <<>> /\ s[Len(s)] \in Space THEN TrimRight(SubSeq(s, 1, Len(s) - 1)) ELSE s

Trim(s) == TrimRight(TrimLeft(s))

RECURSIVE LastSegment(_)
\* relativePath.split('/').pop()
LastSegment(s) ==
    LET j == SpanUntil(s, 1, "/")
    IN  IF j > Len(s) THEN s ELSE LastSegment(Slice(s, j + 1))

\* first position >= i at which lit occurs in s, 0 when there is none
IndexOfFrom(s, i, lit) ==
    LET at == {j \in i..(Len(s) - Len(lit) + 1) : StartsWithAt(s, j, lit)}
    IN  IF at = {} THEN 0 ELSE Min(at)


----------------------------------------------------------------------------
(* Literals of the source *)

L_fileOpen     == <<"$","{","f","i","l","e",":">>
L_braces       == <<"{","{">>
L_close        == <<"}","}">>
L_dotSlash     == <<".","/">>
L_dotDotSlash  == <<".",".","/">>
L_md           == <<".","m","d">>
L_markdown     == <<".","m","a","r","k","d","o","w","n">>
L_fileNotFound == <<"F","i","l","e"," ","n","o","t"," ","f","o","u","n","d",":"," ">>
L_variable     == <<"V","a","r","i","a","b","l","e"," ","'">>
L_notFoundIn   == <<"'"," ","n","o","t"," ","f","o","u","n","d"," ","i","n"," ","f","i","l","e"," ">>
L_notAccess    == <<"'"," ","i","s"," ","n","o","t"," ","a","c","c","e","s","s","i","b","l","e"," ","(">>
L_error        == <<"[","E","R","R","O","R",":"," ">>
L_unresolved   == <<"U","n","r","e","s","o","l","v","e","d"," ","r","e","f","e","r","e","n","c","e">>
L_unknownGlob  == <<"[","U","n","k","n","o","w","n"," ","G","l","o","b","a","l",":"," ">>
L_unknown      == <<"[","U","n","k","n","o","w","n",":"," ">>
L_GLOBAL       == <<"G","L","O","B","A","L",".">>

VisibilityText(v) ==
    CASE v = "private"   -> <<"p","r","i","v","a","t","e">>
      [] v = "protected" -> <<"p","r","o","t","e","c","t","e","d">>
      [] v = "public"    -> <<"p","u","b","l","i","c">>
      [] OTHER           -> <<"u","n","d","e","f","i","n","e","d">>

----------------------------------------------------------------------------
(* CrossFileVariableService.parseCrossFileReferences *)

NoMatch == [ok |-> FALSE, end |-> 0, filePath |-> <<>>, variableName |-> <<>>]

\* /\$\{file:(\.{0,2}\/[^:]+):([A-Z_][A-Z0-9_]*)\}/ anchored at i
MatchFilePathAt(s, i) ==
    IF ~StartsWithAt(s, i, L_fileOpen) THEN NoMatch
    ELSE
    LET p == i + Len(L_fileOpen)
        q == SpanWhile(s, p, {"."})          \* the dots; a "/" must follow them
    IN  IF ~(q - p <= 2 /\ q <= Len(s) /\ s[q] = "/") THEN NoMatch
        ELSE
        LET r == SpanUntil(s, q + 1, ":")    \* [^:]+ runs to the first colon
        IN  IF ~(r > q + 1 /\ r <= Len(s)) THEN NoMatch
            ELSE IF ~(r + 1 <= Len(s) /\ s[r + 1] \in VarStart) THEN NoMatch
            ELSE
            LET e == SpanWhile(s, r + 2, VarRest)
            IN  IF ~(e <= Len(s) /\ s[e] = "}") THEN NoMatch
                ELSE [ok |-> TRUE, end |-> e + 1,
                      filePath |-> SubSeq(s, p, r - 1),
                      variableName |-> SubSeq(s, r + 1, e - 1)]

\* /\{\{([a-zA-Z0-9_-]+)\.([a-zA-Z0-9_]+)\}\}/ anchored at i
MatchFilenameAt(s, i) ==
    IF ~StartsWithAt(s, i, L_braces) THEN NoMatch
    ELSE
    LET a == SpanWhile(s, i + 2, NameChar)
    IN  IF ~(a > i + 2 /\ a <= Len(s) /\ s[a] = ".") THEN NoMatch
        ELSE
        LET b == SpanWhile(s, a + 1, WordChar)
        IN  IF ~(b > a + 1 /\ StartsWithAt(s, b, L_close)) THEN NoMatch
            ELSE [ok |-> TRUE, end |-> b + 2,
                  filePath |-> SubSeq(s, i + 2, a - 1),
                  variableName |-> SubSeq(s, a + 1, b - 1)]

\* the leftmost of the positions at, 0 when there is none (regex.exec returning null,
\* Array.prototype.find returning undefined)
FirstIndex(at) == IF at = {} THEN 0 ELSE Min(at)

RECURSIVE ScanFilePath(_, _)
\* while ((match = filePathRegex.exec(content)) !== null) refs.push(...)
ScanFilePath(s, i) ==
    LET j == FirstIndex({p \in i..Len(s) : MatchFilePathAt(s, p).ok})
    IN  IF j = 0 THEN <<>>
        ELSE LET m == MatchFilePathAt(s, j)
             IN  <<[syntax |-> "file-path",
                    filePath |-> Trim(m.filePath),
                    variableName |-> Trim(m.variableName),
                    isRelative |-> StartsWith(m.filePath, L_dotSlash)
                                   \/ StartsWith(m.filePath, L_dotDotSlash),
                    status |-> "pending"]>> \o ScanFilePath(s, m.end)

RECURSIVE ScanFilename(_, _)
\* while ((match = filenameRegex.exec(content)) !== null) refs.push(...)
ScanFilename(s, i) ==
    LET j == FirstIndex({p \in i..Len(s) : MatchFilenameAt(s, p).ok})
    IN  IF j = 0 THEN <<>>
        ELSE LET m == MatchFilenameAt(s, j)
             IN  <<[syntax |-> "filename",
                    filePath |-> Trim(m.filePath),
                    variableName |-> Trim(m.variableName),
                    isRelative |-> FALSE,
                    status |-> "pending"]>> \o ScanFilename(s, m.end)

parseCrossFileReferences(content) ==
    ScanFilePath(content, 1) \o ScanFilename(content, 1)

----------------------------------------------------------------------------
(* Lookups in the project snapshot *)

FileIndexById(proj, fileId) ==
    FirstIndex({i \in 1..Len(proj.files) : proj.files[i].id = fileId})

FileIndexByName(proj, fileName) ==
    FirstIndex({i \in 1..Len(proj.files) : proj.files[i].name = fileName})

\* targetFile?.id || null
IdOrNull(proj, idx) == IF idx = 0 THEN Null ELSE proj.files[idx].id

VarIndexByKey(variables, key) ==
    FirstIndex({i \in 1..Len(variables) : variables[i].key = key})

\* name.replace(/\.(md|markdown)$/i, '')
StripExt(name) ==
    IF EndsWithCI(name, L_md) THEN SubSeq(name, 1, Len(name) - Len(L_md))
    ELSE IF EndsWithCI(name, L_markdown) THEN SubSeq(name, 1, Len(name) - Len(L_markdown))
    ELSE name

----------------------------------------------------------------------------
(* CrossFileVariableService.resolveFilePath *)

\* a resolution that keeps the last segment of the path in every branch
resolveFilePathByBasename(fileId, relativePath, proj) ==
    IF FileIndexById(proj, fileId) = 0 THEN Null
    ELSE IdOrNull(proj, FileIndexByName(proj, LastSegment(relativePath)))

resolveFilePath(fileId, relativePath, proj) ==
    IF FileIndexById(proj, fileId) = 0 THEN Null
    ELSE IF StartsWith(relativePath, L_dotSlash)
         THEN IdOrNull(proj, FileIndexByName(proj, Slice(relativePath, 3)))
    ELSE IF StartsWith(relativePath, L_dotDotSlash)
         THEN IdOrNull(proj, FileIndexByName(proj, LastSegment(relativePath)))
    ELSE IdOrNull(proj, FileIndexByName(proj,
             IF StartsWith(relativePath, <<"/">>) THEN Slice(relativePath, 2)
             ELSE relativePath))

(* CrossFileVariableService.isVariableAccessible *)

isVariableAccessible(variable, sourceFileId, targetFileId) ==
    IF variable.visibility = "undefined" \/ variable.visibility = "public" THEN TRUE
    ELSE IF variable.visibility = "private" THEN sourceFileId = targetFileId
    ELSE IF variable.visibility = "protected" THEN TRUE
    ELSE FALSE

----------------------------------------------------------------------------
(* CrossFileVariableService.resolveCrossFileReference *)

SyntaxText(syntax) ==
    IF syntax = "filename" THEN <<"f","i","l","e","n","a","m","e">>
    ELSE <<"f","i","l","e","-","p","a","t","h">>

\* `${currentFileId}:${ref.syntax}:${ref.filePath}:${ref.variableName}`
CacheKey(fileId, ref) ==
    <<fileId>> \o <<":">> \o SyntaxText(ref.syntax) \o <<":">> \o ref.filePath
               \o <<":">> \o ref.variableName

\* a cache that holds the last resolved value only
CacheSetAlone(cache, key, value) == [k \in {key} |-> value]

CacheSet(cache, key, value) ==
    [k \in DOMAIN cache \cup {key} |-> IF k = key THEN value ELSE cache[k]]

\* an answer that leaves the status of the parsed reference as it was
AnswerStatusKept(ref, status, value, fileId, error) ==
    [syntax |-> ref.syntax, filePath |-> ref.filePath,
     variableName |-> ref.variableName, isRelative |-> ref.isRelative,
     status |-> ref.status, resolvedValue |-> value,
     resolvedFileId |-> fileId, error |-> error]

\* { ...ref, ...fields }: a reference with its optional fields
Answer(ref, status, value, fileId, error) ==
    [syntax |-> ref.syntax, filePath |-> ref.filePath,
     variableName |-> ref.variableName, isRelative |-> ref.isRelative,
     status |-> status, resolvedValue |-> value,
     resolvedFileId |-> fileId, error |-> error]

\* the file the designator of ref names, seen from fileId
TargetFileId(ref, fileId, proj) ==
    IF ref.syntax = "filename"
    THEN IdOrNull(proj, FirstIndex({i \in 1..Len(proj.files) :
                                       StripExt(proj.files[i].name) = StripExt(ref.filePath)}))
    ELSE resolveFilePath(fileId, ref.filePath, proj)

\* let variable = targetFile.localVariables.find(...); if (!variable) variable = globalVariables.find(...)
LookupVariable(targetFile, proj, key) ==
    LET li == VarIndexByKey(targetFile.localVariables, key)
        gi == VarIndexByKey(proj.globalVariables, key)
    IN  IF li # 0 THEN [found |-> TRUE, scope |-> "local", var |-> targetFile.localVariables[li]]
        ELSE IF gi # 0 THEN [found |-> TRUE, scope |-> "global", var |-> proj.globalVariables[gi]]
        ELSE [found |-> FALSE, scope |-> "none", var |-> Undefined]

\* the part of resolveCrossFileReference after the cache check
ResolveMiss(ref, fileId, proj, cache) ==
    LET targetFileId == TargetFileId(ref, fileId, proj)
        fileNotFound == [ref |-> Answer(ref, "error", Undefined, "undefined",
                                        L_fileNotFound \o ref.filePath),
                         cache |-> cache]
    IN  IF targetFileId = Null THEN fileNotFound
        ELSE IF FileIndexById(proj, targetFileId) = 0 THEN fileNotFound
        ELSE
        LET targetFile == proj.files[FileIndexById(proj, targetFileId)]
            hit == LookupVariable(targetFile, proj, ref.variableName)
        IN  IF ~hit.found
            THEN [ref |-> Answer(ref, "not-found", Undefined, targetFileId,
                                 L_variable \o ref.variableName \o L_notFoundIn \o ref.filePath),
                  cache |-> cache]
            ELSE IF ~isVariableAccessible(hit.var, fileId, targetFileId)
            THEN [ref |-> Answer(ref, "error", Undefined, targetFileId,
                                 L_variable \o ref.variableName \o L_notAccess
                                 \o VisibilityText(hit.var.visibility) \o <<")">>),
                  cache |-> cache]
            ELSE [ref |-> Answer(ref, "resolved", hit.var.value, targetFileId, Undefined),
                  cache |-> CacheSet(cache, CacheKey(fileId, ref), hit.var.value)]

\* a resolver that never finds a key in its cache
CacheHitNever(cache, key) == FALSE

\* if (this.resolvedCache.has(cacheKey)) return { ...ref, resolvedValue: cache.get(cacheKey), status: 'resolved' }
CacheHit(cache, key) == key \in DOMAIN cache

resolveCrossFileReference(ref, fileId, proj, cache) ==
    IF CacheHit(cache, CacheKey(fileId, ref))
    THEN [ref |-> Answer(ref, "resolved", cache[CacheKey(fileId, ref)], "undefined", Undefined),
          cache |-> cache]
    ELSE ResolveMiss(ref, fileId, proj, cache)

(* CrossFileVariableService.clearCache *)

EmptyCache == [k \in {} |-> <<>>]

clearCache(cache) == EmptyCache

----------------------------------------------------------------------------
(* String.prototype.replace(regex, replacementString) for a literal pattern *)

DollarPatterns == {"$", "&"}     \* $$ and $&

RECURSIVE Expand(_, _, _, _, _)
\* the replacement string from position k on, with its $-patterns substituted for the
\* match s[ms..me-1]: $$ is a dollar sign and $& the matched text; the patterns have no
\* capture groups, so $1..$99 stay literal; the two patterns for the text before and
\* after the match need a quote character after the dollar sign, which no value and no
\* message of the model holds
Expand(rep, k, s, ms, me) ==
    LET at == {j \in k..(Len(rep) - 1) : rep[j] = "$" /\ rep[j + 1] \in DollarPatterns}
    IN  IF at = {} THEN Slice(rep, k)
        ELSE LET j == Min(at)
             IN  SubSeq(rep, k, j - 1)
                 \o (IF rep[j + 1] = "$" THEN <<"$">> ELSE SubSeq(s, ms, me - 1))
                 \o Expand(rep, j + 2, s, ms, me)

RECURSIVE ReplaceFrom(_, _, _, _)
ReplaceFrom(s, i, lit, rep) ==
    LET j == IndexOfFrom(s, i, lit)
    IN  IF j = 0 THEN Slice(s, i)
        ELSE SubSeq(s, i, j - 1) \o Expand(rep, 1, s, j, j + Len(lit))
             \o ReplaceFrom(s, j + Len(lit), lit, rep)

\* resolvedContent.replace(new RegExp(escapedLiteral, 'g'), rep)
ReplaceAll(s, lit, rep) == ReplaceFrom(s, 1, lit, rep)

----------------------------------------------------------------------------
(* CrossFileVariableService.resolveContent *)

\* the text the pattern of a reference matches
RefLiteral(ref) ==
    IF ref.syntax = "filename"
    THEN L_braces \o ref.filePath \o <<".">> \o ref.variableName \o L_close
    ELSE L_fileOpen \o ref.filePath \o <<":">> \o ref.variableName \o <<"}">>

\* resolved.status === 'resolved' && resolved.resolvedValue
UseValue(resolved) ==
    resolved.status = "resolved" /\ resolved.resolvedValue # <<>>

\* what one iteration of the loop puts in place of the reference
Replacement(resolved) ==
    IF UseValue(resolved) THEN resolved.resolvedValue
    ELSE L_error
         \o (IF resolved.error = Undefined \/ resolved.error = <<>>
             THEN L_unresolved ELSE resolved.error)
         \o <<"]">>

RECURSIVE ResolveLoop(_, _, _, _, _, _, _)
RECURSIVE ResolveLoopBody(_, _, _, _, _, _, _)
\* for (const ref of refs) { resolve; replace }
\* (answers collects what resolveCrossFileReference returned, for the observers below)
ResolveLoop(refs, k, text, fileId, proj, cache, answers) ==
    IF k > Len(refs) THEN [text |-> text, cache |-> cache, answers |-> answers]
    ELSE ResolveLoopBody(refs, k, text, fileId, proj, answers,
                         resolveCrossFileReference(refs[k], fileId, proj, cache))

\* the body of the loop once refs[k] was resolved to r
ResolveLoopBody(refs, k, text, fileId, proj, answers, r) ==
    ResolveLoop(refs, k + 1,
                ReplaceAll(text, RefLiteral(refs[k]), Replacement(r.ref)),
                fileId, proj, r.cache, Append(answers, r.ref))

resolveContent(content, fileId, proj, cache) ==
    ResolveLoop(parseCrossFileReferences(content), 1, content, fileId, proj, cache, <<>>)

----------------------------------------------------------------------------
(* Preview.resolveVariables *)

\* a map in which the first entry of a key is the one kept
MapGetFirst(variables, key) ==
    IF \E i \in 1..Len(variables) : variables[i].key = key
    THEN variables[CHOOSE i \in 1..Len(variables) :
                     /\ variables[i].key = key
                     /\ \A j \in 1..(i - 1) : variables[j].key # key].value
    ELSE Undefined

\* new Map(variables.map(v => [v.key, v.value])).get(key): a later entry overwrites an earlier one
MapGet(variables, key) ==
    IF \E i \in 1..Len(variables) : variables[i].key = key
    THEN variables[CHOOSE i \in 1..Len(variables) :
                     /\ variables[i].key = key
                     /\ \A j \in (i + 1)..Len(variables) : variables[j].key # key].value
    ELSE Undefined

\* the callback of resolved.replace(/\{\{([^}]+)\}\}/g, (match, key) => ...)
SimpleValue(key, variables, proj) ==
    LET trimmedKey == Trim(key)
    IN  IF StartsWith(trimmedKey, L_GLOBAL)
        THEN LET globalKey == Slice(trimmedKey, Len(L_GLOBAL) + 1)
                 gi == VarIndexByKey(proj.globalVariables, globalKey)
             IN  IF gi # 0 THEN proj.globalVariables[gi].value
                 ELSE L_unknownGlob \o globalKey \o <<"]">>
        ELSE LET v == MapGet(variables, trimmedKey)
             IN  IF v # Undefined /\ v # <<>> THEN v
                 ELSE L_unknown \o trimmedKey \o <<"]">>

\* /\{\{([^}]+)\}\}/ anchored at i
MatchSimpleAt(s, i) ==
    IF ~StartsWithAt(s, i, L_braces) THEN NoMatch
    ELSE LET c == SpanUntil(s, i + 2, "}")
         IN  IF ~(c > i + 2 /\ StartsWithAt(s, c, L_close)) THEN NoMatch
             ELSE [ok |-> TRUE, end |-> c + 2,
                   filePath |-> <<>>, variableName |-> SubSeq(s, i + 2, c - 1)]

RECURSIVE SimplePass(_, _, _, _)
\* resolved.replace(/\{\{([^}]+)\}\}/g, callback) from position i on
SimplePass(s, i, variables, proj) ==
    LET j == FirstIndex({p \in i..Len(s) : MatchSimpleAt(s, p).ok})
    IN  IF j = 0 THEN Slice(s, i)
        ELSE LET m == MatchSimpleAt(s, j)
             IN  SubSeq(s, i, j - 1)
                 \o SimpleValue(m.variableName, variables, proj)
                 \o SimplePass(s, m.end, variables, proj)

\* allVariables = [...state.project.globalVariables, ...currentFile.localVariables]
AllVariables(proj, fileId) ==
    proj.globalVariables \o proj.files[FileIndexById(proj, fileId)].localVariables

\* the second pass of resolveVariables, on the outcome of the first
SecondPass(pass1, variables, proj) ==
    [text |-> SimplePass(pass1.text, 1, variables, proj), cache |-> pass1.cache,
     answers |-> pass1.answers]

\* resolveVariables(content, allVariables) with currentFile = the file fileId (Null: no current file)
resolveVariables(content, variables, fileId, proj, cache) ==
    SecondPass(IF fileId # Null /\ FileIndexById(proj, fileId) # 0
               THEN resolveContent(content, fileId, proj, cache)
               ELSE [text |-> content, cache |-> cache, answers |-> <<>>],
               variables, proj)

----------------------------------------------------------------------------
(* CrossFileVariableService.detectCircularReferences *)

\* fileRefs: Map<string, Set<string>> in insertion order:
\* keys is the sequence of its keys, adj[k] the sequence of the members of its set
EmptyFileRefs == [keys |-> <<>>, adj |-> [k \in {} |-> <<>>]]

InSeq(x, seq) == \E i \in 1..Len(seq) : seq[i] = x

\* path.indexOf(node), 0 for -1
IndexOf(seq, x) ==
    FirstIndex({i \in 1..Len(seq) : seq[i] = x})

\* a graph walk that sees no outgoing reference
NeighborsNone(fileRefs, node) == <<>>

\* fileRefs.get(node) || new Set()
Neighbors(fileRefs, node) ==
    IF node \in DOMAIN fileRefs.adj THEN fileRefs.adj[node] ELSE <<>>

RECURSIVE dfs(_, _, _, _)
RECURSIVE dfsEach(_, _, _, _, _)

\* st = [visited, recursionStack, cycles]
dfs(fileRefs, node, path, st) ==
    IF node \in st.recursionStack
    THEN LET cycleStart == IndexOf(path, node)
         IN  IF cycleStart # 0
             THEN [st EXCEPT !.cycles = Append(@, Slice(path, cycleStart) \o <<node>>)]
             ELSE st
    ELSE IF node \in st.visited THEN st
    ELSE LET entered == [st EXCEPT !.visited = @ \cup {node},
                                   !.recursionStack = @ \cup {node}]
             after == dfsEach(fileRefs, Neighbors(fileRefs, node), 1,
                              Append(path, node), entered)
         IN  [after EXCEPT !.recursionStack = @ \ {node}]

\* neighbors.forEach(neighbor => dfs(neighbor, [...path, node]))
dfsEach(fileRefs, nbrs, k, path, st) ==
    IF k > Len(nbrs) THEN st
    ELSE dfsEach(fileRefs, nbrs, k + 1, path, dfs(fileRefs, nbrs[k], path, st))

RECURSIVE dfsRoots(_, _, _)
\* Array.from(fileRefs.keys()).forEach(node => { if (!visited.has(node)) dfs(node, []) })
dfsRoots(fileRefs, k, st) ==
    IF k > Len(fileRefs.keys) THEN st
    ELSE dfsRoots(fileRefs, k + 1,
                  IF fileRefs.keys[k] \notin st.visited
                  THEN dfs(fileRefs, fileRefs.keys[k], <<>>, st)
                  ELSE st)

detectCircularReferences(fileRefs) ==
    dfsRoots(fileRefs, 1, [visited |-> {}, recursionStack |-> {}, cycles |-> <<>>]).cycles

----------------------------------------------------------------------------
(* CrossFileVariableService.buildDependencyGraph *)

IsText(block) == block.content.kind = "string"     \* typeof block.content === 'string'

RECURSIVE ResolveAll(_, _, _, _, _, _)
RECURSIVE ResolveNext(_, _, _, _, _, _)
\* refs.map(ref => this.resolveCrossFileReference(ref, file.id, project))
ResolveAll(refs, k, fileId, proj, cache, out) ==
    IF k > Len(refs) THEN [refs |-> out, cache |-> cache]
    ELSE ResolveNext(refs, k, fileId, proj, out,
                     resolveCrossFileReference(refs[k], fileId, proj, cache))

ResolveNext(refs, k, fileId, proj, out, r) ==
    ResolveAll(refs, k + 1, fileId, proj, r.cache, Append(out, r.ref))

\* if (ref.resolvedFileId)
HasTarget(ref) == ref.resolvedFileId # "undefined" /\ ref.resolvedFileId # Null

RECURSIVE TargetsInOrder(_, _, _)
\* the keys of refsByFile in insertion order
TargetsInOrder(resolvedRefs, k, seen) ==
    IF k > Len(resolvedRefs) THEN seen
    ELSE TargetsInOrder(resolvedRefs, k + 1,
             IF HasTarget(resolvedRefs[k]) /\ ~InSeq(resolvedRefs[k].resolvedFileId, seen)
             THEN Append(seen, resolvedRefs[k].resolvedFileId)
             ELSE seen)

\* fileRefs.get(file.id).add(target) for every target, creating the entry when needed
AddEdges(fileRefs, fileId, targets) ==
    IF targets = <<>> THEN fileRefs
    ELSE LET old == Neighbors(fileRefs, fileId)
             new == SelectSeq(targets, LAMBDA t : ~InSeq(t, old))
         IN  [keys |-> IF InSeq(fileId, fileRefs.keys) THEN fileRefs.keys
                       ELSE Append(fileRefs.keys, fileId),
              adj  |-> [k \in DOMAIN fileRefs.adj \cup {fileId} |->
                           IF k = fileId THEN old \o new ELSE fileRefs.adj[k]]]

\* refsByFile.forEach((refs, targetFileId) => dependencies.push({...}))
BlockDependencies(fileId, resolvedRefs, targets) ==
    [i \in 1..Len(targets) |->
        [sourceFileId |-> fileId,
         targetFileId |-> targets[i],
         variableRefs |-> SelectSeq(resolvedRefs,
                              LAMBDA r : HasTarget(r) /\ r.resolvedFileId = targets[i])]]

\* the accumulators acc = [dependencies, fileRefs, cache] after the references of one
\* block of fileId were resolved to res and grouped by the targets
AfterBlock(fileId, acc, res, targets) ==
    [dependencies |-> acc.dependencies \o BlockDependencies(fileId, res.refs, targets),
     fileRefs |-> AddEdges(acc.fileRefs, fileId, targets),
     cache |-> res.cache]

GroupBlock(fileId, acc, res) ==
    AfterBlock(fileId, acc, res, TargetsInOrder(res.refs, 1, <<>>))

\* if (typeof block.content === 'string') refs = parse(block.content); if (refs.length > 0) ...
BuildBlock(fileId, proj, acc, refs) ==
    IF refs = <<>> THEN acc
    ELSE GroupBlock(fileId, acc, ResolveAll(refs, 1, fileId, proj, acc.cache, <<>>))

BlockRefs(block) ==
    IF IsText(block) THEN parseCrossFileReferences(block.content.text) ELSE <<>>

RECURSIVE BuildBlocks(_, _, _, _)
\* for (const block of file.blocks)
BuildBlocks(file, b, proj, acc) ==
    IF b > Len(file.blocks) THEN acc
    ELSE BuildBlocks(file, b + 1, proj,
                     BuildBlock(file.id, proj, acc, BlockRefs(file.blocks[b])))

RECURSIVE BuildFiles(_, _, _)
\* for (const file of project.files)
BuildFiles(proj, f, acc) ==
    IF f > Len(proj.files) THEN acc
    ELSE BuildFiles(proj, f + 1, BuildBlocks(proj.files[f], 1, proj, acc))

\* this.dependencyGraph = { dependencies, circularRefs }, with the service's cache
GraphOf(acc) ==
    [graph |-> [dependencies |-> acc.dependencies,
                circularRefs |-> detectCircularReferences(acc.fileRefs)],
     fileRefs |-> acc.fileRefs,
     cache |-> acc.cache]

buildDependencyGraph(proj, cache) ==
    GraphOf(BuildFiles(proj, 1, [dependencies |-> <<>>, fileRefs |-> EmptyFileRefs,
                                 cache |-> cache]))

RECURSIVE getFileReferencesFrom(_, _, _, _, _)
\* for (const block of file.blocks) ... allRefs.push(...resolvedRefs)
getFileReferencesFrom(file, b, proj, cache, allRefs) ==
    IF b > Len(file.blocks) THEN [refs |-> allRefs, cache |-> cache]
    ELSE IF ~IsText(file.blocks[b])
    THEN getFileReferencesFrom(file, b + 1, proj, cache, allRefs)
    ELSE LET r == ResolveAll(parseCrossFileReferences(file.blocks[b].content.text),
                             1, file.id, proj, cache, allRefs)
         IN  getFileReferencesFrom(file, b + 1, proj, r.cache, r.refs)

(* CrossFileVariableService.getFileReferences *)
getFileReferences(fileId, proj, cache) ==
    IF FileIndexById(proj, fileId) = 0 THEN [refs |-> <<>>, cache |-> cache]
    ELSE getFileReferencesFrom(proj.files[FileIndexById(proj, fileId)], 1, proj, cache, <<>>)

----------------------------------------------------------------------------
(* The application reducer (appReducer) on the parts of AppState modelled *)

T_docs   == <<"d","o","c","s">>
T_notes  == <<"n","o","t","e","s">>
T_guide  == <<"g","u","i","d","e">>
T_title  == <<"t","i","t","l","e">>
T_Spec   == <<"S","p","e","c">>
T_Draft  == <<"D","r","a","f","t">>

TextContent(text) == [kind |-> "string", text |-> text]

\* a block: id, name (optional), type (a value of BlockType), content, metadata.version
Block(id, name, type, content) ==
    [id |-> id, name |-> name, type |-> type, content |-> content, version |-> 1]

Paragraph(id, text) == Block(id, Undefined, "p", TextContent(text))

File(id, name, locals, blocks) ==
    [id |-> id, name |-> name, localVariables |-> locals, blocks |-> blocks]

Variable(id, key, value, visibility) ==
    [id |-> id, key |-> key, value |-> value, visibility |-> visibility]


\* the ids of the variables of the project, and a fresh one (crypto.randomUUID())
VariableIds(proj) ==
    {proj.globalVariables[i].id : i \in 1..Len(proj.globalVariables)}
    \cup UNION {{proj.files[f].localVariables[i].id : i \in 1..Len(proj.files[f].localVariables)}
                : f \in 1..Len(proj.files)}

FreshId(proj) == CHOOSE n \in 1..(Cardinality(VariableIds(proj)) + 1) : n \notin VariableIds(proj)

\* case 'UPDATE_FILE'
reduceUpdateFile(proj, fileId, name) ==
    LET F(file) == IF file.id = fileId THEN [file EXCEPT !.name = name] ELSE file
    IN  [proj EXCEPT !.files = [i \in 1..Len(proj.files) |-> F(proj.files[i])]]

\* case 'ADD_VARIABLE'
reduceAddVariable(proj, fileId, variable) ==
    IF fileId # Null
    THEN LET F(file) == IF file.id = fileId
                        THEN [file EXCEPT !.localVariables = Append(@, variable)]
                        ELSE file
         IN  [proj EXCEPT !.files = [i \in 1..Len(proj.files) |-> F(proj.files[i])]]
    ELSE [proj EXCEPT !.globalVariables = Append(@, variable)]

\* { ...variable, ...action.payload.updates }
ApplyUpdates(variable, updates) ==
    [f \in DOMAIN variable \cup DOMAIN updates |->
        IF f \in DOMAIN updates THEN updates[f] ELSE variable[f]]

\* case 'UPDATE_VARIABLE'
reduceUpdateVariable(proj, fileId, variableId, updates) ==
    LET V(variable) == IF variable.id = variableId THEN ApplyUpdates(variable, updates)
                       ELSE variable
        F(file) == IF file.id = fileId
                   THEN [file EXCEPT !.localVariables =
                            [i \in 1..Len(file.localVariables) |-> V(file.localVariables[i])]]
                   ELSE file
    IN  IF fileId # Null
        THEN [proj EXCEPT !.files = [i \in 1..Len(proj.files) |-> F(proj.files[i])]]
        ELSE [proj EXCEPT !.globalVariables =
                 [i \in 1..Len(proj.globalVariables) |-> V(proj.globalVariables[i])]]

\* case 'DELETE_VARIABLE'
reduceDeleteVariable(proj, fileId, variableId) ==
    LET Keep(variable) == variable.id # variableId
        F(file) == IF file.id = fileId
                   THEN [file EXCEPT !.localVariables = SelectSeq(@, Keep)]
                   ELSE file
    IN  IF fileId # Null
        THEN [proj EXCEPT !.files = [i \in 1..Len(proj.files) |-> F(proj.files[i])]]
        ELSE [proj EXCEPT !.globalVariables = SelectSeq(@, Keep)]

\* the variables of a scope: a file's local ones, or the global ones for Null
ScopeVariables(proj, fileId) ==
    IF fileId = Null THEN proj.globalVariables
    ELSE proj.files[FileIndexById(proj, fileId)].localVariables

----------------------------------------------------------------------------
(* Spec: a loaded two-file project whose variables are edited while the   *)
(* service is called                                                       *)

Values == {T_Spec, T_Draft}
EditedVisibilities == {"public", "private"}   \* the visibilities chosen under Spec
FileIds == {"A", "B"}
VarScopes == {Null, "B"}      \* where the variable editor adds, edits and deletes
NewNames == {T_guide}         \* the name a file is renamed to

\* no table, nothing loading, no timer, no save, no prompt and no search in flight, nothing
\* stored
UiIdle ==
    /\ rows = <<>>
    /\ isLoading = FALSE
    /\ appError = Null
    /\ saveTimeout = <<>>
    /\ saving = <<>>
    /\ storage = <<>>
    /\ effectDeps = <<>>
    /\ exec = <<>>
    /\ inlined = {}
    /\ walk = <<>>

\* notes holds the reference of the spec's example, docs is its target
StoredProject ==
    [files |-> << File("A", T_notes, <<>>,
                       <<Paragraph(1, L_braces \o T_docs \o <<".">> \o T_title \o L_close)>>),
                  File("B", T_docs, <<>>, <<>>) >>,
     globalVariables |-> <<>>]

\* the references the service is asked to resolve: those of the text blocks of the project
ProjectRefs(proj) ==
    UNION {UNION {LET refs == IF IsText(proj.files[f].blocks[b])
                               THEN parseCrossFileReferences(proj.files[f].blocks[b].content.text)
                               ELSE <<>>
                  IN  {refs[i] : i \in 1..Len(refs)}
                  : b \in 1..Len(proj.files[f].blocks)}
           : f \in 1..Len(proj.files)}

ProjectFileIds(proj) == {proj.files[f].id : f \in 1..Len(proj.files)}

\* initialState, then LOAD_PROJECT_SUCCESS with the stored project
Init ==
    /\ project = StoredProject
    /\ currentFileId = Null
    /\ saveStatus = "saved"
    /\ resolvedCache = EmptyCache
    /\ dependencyGraph = [dependencies |-> <<>>, circularRefs |-> <<>>]
    /\ ret = [op |-> "init"]
    /\ served = EmptyCache
    /\ UiIdle

\* actions.addVariable -> ADD_VARIABLE
AddVariable ==
    \E fileId \in VarScopes, value \in Values, visibility \in EditedVisibilities :
        /\ Cardinality(VariableIds(project)) < MaxVariables
        /\ project' = reduceAddVariable(project, fileId,
                          Variable(FreshId(project), T_title, value, visibility))
        /\ saveStatus' = "unsaved"
        /\ ret' = [op |-> "addVariable"]
        /\ UNCHANGED <<currentFileId, resolvedCache, dependencyGraph, served>>
        /\ UNCHANGED uiVars

\* actions.updateVariable -> UPDATE_VARIABLE (a new value, or a new visibility)
UpdateVariable ==
    \E fileId \in VarScopes :
      \E i \in 1..Len(ScopeVariables(project, fileId)) :
        \E updates \in {[value |-> v] : v \in Values}
                       \cup {[visibility |-> x] : x \in EditedVisibilities} :
            /\ project' = reduceUpdateVariable(project, fileId,
                              ScopeVariables(project, fileId)[i].id, updates)
            /\ saveStatus' = "unsaved"
            /\ ret' = [op |-> "updateVariable"]
            /\ UNCHANGED <<currentFileId, resolvedCache, dependencyGraph, served>>
            /\ UNCHANGED uiVars

\* actions.deleteVariable -> DELETE_VARIABLE
DeleteVariable ==
    \E fileId \in VarScopes :
      \E i \in 1..Len(ScopeVariables(project, fileId)) :
        /\ project' = reduceDeleteVariable(project, fileId,
                          ScopeVariables(project, fileId)[i].id)
        /\ saveStatus' = "unsaved"
        /\ ret' = [op |-> "deleteVariable"]
        /\ UNCHANGED <<currentFileId, resolvedCache, dependencyGraph, served>>
        /\ UNCHANGED uiVars

\* actions.updateFile(fileId, { name }) -> UPDATE_FILE
UpdateFile ==
    \E fileId \in FileIds, name \in NewNames :
        /\ project' = reduceUpdateFile(project, fileId, name)
        /\ saveStatus' = "unsaved"
        /\ ret' = [op |-> "updateFile"]
        /\ UNCHANGED <<currentFileId, resolvedCache, dependencyGraph, served>>
        /\ UNCHANGED uiVars

\* actions.setCurrentFile -> SET_CURRENT_FILE
SetCurrentFile ==
    \E fileId \in FileIds \cup {Null} :
        /\ currentFileId' = fileId
        /\ ret' = [op |-> "setCurrentFile"]
        /\ UNCHANGED <<project, saveStatus, resolvedCache, dependencyGraph, served>>
        /\ UNCHANGED uiVars

RECURSIVE Observe(_, _, _, _)
\* served, after the answers of resolveCrossFileReference to the file fileId
Observe(srv, answers, k, fileId) ==
    IF k > Len(answers) THEN srv
    ELSE Observe(IF answers[k].status = "resolved"
                 THEN CacheSet(srv, CacheKey(fileId, answers[k]), answers[k].resolvedValue)
                 ELSE srv,
                 answers, k + 1, fileId)

\* a service that writes the rewritten text back into the blocks it was read from
RewrittenInPlace(op, fileId, content, r) ==
    /\ resolvedCache' = r.cache
    /\ ret' = [op |-> op, fileId |-> fileId, content |-> content,
               answers |-> r.answers, text |-> r.text]
    /\ served' = Observe(served, r.answers, 1, fileId)
    /\ project' = [project EXCEPT !.files =
                      [f \in DOMAIN @ |->
                         [@[f] EXCEPT !.blocks =
                            [b \in DOMAIN @ |->
                               IF IsText(@[b]) /\ @[b].content.text = content
                               THEN [@[b] EXCEPT !.content.text = r.text]
                               ELSE @[b]]]]]
    /\ UNCHANGED <<currentFileId, saveStatus, dependencyGraph>>
    /\ UNCHANGED uiVars

\* the service's cache after a call that rewrote content for fileId, and what the caller got
Rewritten(op, fileId, content, r) ==
    /\ resolvedCache' = r.cache
    /\ ret' = [op |-> op, fileId |-> fileId, content |-> content,
               answers |-> r.answers, text |-> r.text]
    /\ served' = Observe(served, r.answers, 1, fileId)
    /\ UNCHANGED <<project, currentFileId, saveStatus, dependencyGraph>>
    /\ UNCHANGED uiVars

\* the text blocks of a file
TextsOf(file) ==
    {file.blocks[b].content.text : b \in {i \in 1..Len(file.blocks) : IsText(file.blocks[i])}}

\* Preview.renderedContent: resolveVariables(block.content, allVariables) for a text block
\* of the current file
RenderBlock ==
    /\ currentFileId # Null
    /\ FileIndexById(project, currentFileId) # 0
    /\ \E content \in TextsOf(project.files[FileIndexById(project, currentFileId)]) :
          Rewritten("render", currentFileId, content,
                    resolveVariables(content, AllVariables(project, currentFileId),
                                     currentFileId, project, resolvedCache))

\* the service's cache after a call for ref from fileId, and what the caller got
Resolved(ref, fileId, r) ==
    /\ resolvedCache' = r.cache
    /\ ret' = [op |-> "resolve", ref |-> ref, fileId |-> fileId,
               key |-> CacheKey(fileId, ref), out |-> r.ref]
    /\ served' = Observe(served, <<r.ref>>, 1, fileId)
    /\ UNCHANGED <<project, currentFileId, saveStatus, dependencyGraph>>
    /\ UNCHANGED uiVars

\* crossFileVariableService.resolveCrossFileReference(ref, fileId, project)
Resolve ==
    \E ref \in ProjectRefs(project), fileId \in ProjectFileIds(project) :
        Resolved(ref, fileId, resolveCrossFileReference(ref, fileId, project, resolvedCache))

UnknownFileId == "Z"     \* an id no file of the project has

\* crossFileVariableService.getFileReferences(fileId, project)
GetFileReferences ==
    \E fileId \in ProjectFileIds(project) \cup {UnknownFileId} :
        \E r \in {getFileReferences(fileId, project, resolvedCache)} :
            /\ resolvedCache' = r.cache
            /\ ret' = [op |-> "getFileReferences", fileId |-> fileId, answers |-> r.refs]
            /\ served' = Observe(served, r.refs, 1, fileId)
            /\ UNCHANGED <<project, currentFileId, saveStatus, dependencyGraph>>
            /\ UNCHANGED uiVars

\* the service's graph and cache after buildDependencyGraph returned g; cold tells whether
\* the cache was empty when it was called
Built(cold, g) ==
    /\ dependencyGraph' = g.graph
    /\ resolvedCache' = g.cache
    /\ served' = g.cache
    /\ ret' = [op |-> "build", cold |-> cold, graph |-> g.graph, fileRefs |-> g.fileRefs]
    /\ UNCHANGED <<project, currentFileId, saveStatus>>
    /\ UNCHANGED uiVars

\* crossFileVariableService.buildDependencyGraph(project)
Build ==
    \E cold \in {resolvedCache = EmptyCache} :
        Built(cold, buildDependencyGraph(project, resolvedCache))

\* crossFileVariableService.clearCache()
ClearCache ==
    /\ resolvedCache' = clearCache(resolvedCache)
    /\ served' = EmptyCache
    /\ ret' = [op |-> "clearCache"]
    /\ UNCHANGED <<project, currentFileId, saveStatus, dependencyGraph>>
    /\ UNCHANGED uiVars

Next ==
    \/ AddVariable \/ UpdateVariable \/ DeleteVariable
    \/ UpdateFile \/ SetCurrentFile
    \/ Resolve \/ RenderBlock \/ ClearCache

Spec == Init /\ [][Next]_vars

----------------------------------------------------------------------------
(* What a reference denotes in a project, read off the project alone *)

\* the variable a reference denotes for a requesting file: found is FALSE when the
\* designator names no file or the key is in neither scope
Denoted(ref, fileId, proj) ==
    LET t == TargetFileId(ref, fileId, proj)
    IN  IF t = Null \/ FileIndexById(proj, t) = 0
        THEN [found |-> FALSE, scope |-> "none", var |-> Undefined, target |-> Null]
        ELSE LET hit == LookupVariable(proj.files[FileIndexById(proj, t)], proj, ref.variableName)
             IN  [found |-> hit.found, scope |-> hit.scope, var |-> hit.var, target |-> t]

Readable(ref, fileId, proj) ==
    LET d == Denoted(ref, fileId, proj)
    IN  d.found /\ (d.var.visibility = "private" => fileId = d.target)

----------------------------------------------------------------------------
(* Claims checked under Spec *)

\* C1: a reference that resolved for a cache key keeps resolving to that same value on
\* every later call with the key, whatever is done to the variable, until clearCache();
\* a call whose key has not been answered since the last clearCache() (the first call
\* after it) resolves exactly when the project holds a readable variable for the
\* reference, and then returns that variable's current value.
CacheStaleUntilCleared ==
    [][ret'.op = "resolve" =>
         IF ret'.key \in DOMAIN served
         THEN /\ ret'.out.status = "resolved"
              /\ ret'.out.resolvedValue = served[ret'.key]
         ELSE /\ ret'.out.status = "resolved" <=> Readable(ret'.ref, ret'.fileId, project')
              /\ ret'.out.status = "resolved" =>
                     ret'.out.resolvedValue = Denoted(ret'.ref, ret'.fileId, project').var.value
       ]_vars

\* C1 witness: a call answered with the old value of a variable whose value was changed
StaleValueServed ==
    /\ ret.op = "resolve"
    /\ ret.out.status = "resolved"
    /\ Readable(ret.ref, ret.fileId, project)
    /\ Denoted(ret.ref, ret.fileId, project).var.value # ret.out.resolvedValue

\* C2: a reference to a variable that is private in the given project resolves only for
\* the target file itself; for every other requesting file the status is 'error'.
PrivateOnlyFromOwner ==
    ret.op = "resolve" =>
        LET d == Denoted(ret.ref, ret.fileId, project)
        IN  (d.found /\ d.var.visibility = "private" /\ ret.fileId # d.target)
                => ret.out.status = "error"

T_docsTitleRef == L_braces \o T_docs \o <<".">> \o T_title \o L_close
T_fileNotFoundDocs == L_error \o L_fileNotFound \o T_docs \o <<"]">>

NoFileNamed(proj, name) ==
    \A f \in 1..Len(proj.files) : StripExt(proj.files[f].name) # name

\* C3: once no file is named docs any more, rendering the unchanged text {{docs.title}}
\* yields '[ERROR: File not found: docs]'.
RenamedTargetIsNotFound ==
    (ret.op = "render" /\ ret.content = T_docsTitleRef /\ NoFileNamed(project, T_docs))
        => ret.text = T_fileNotFoundDocs

----------------------------------------------------------------------------
(* SpecRender: the two substitution passes applied to one block of a          *)
(* project drawn from a bounded set                                            *)

MaxRenderVars == 1    \* variables per scope (global, and local to each file) under SpecRender

T_TITLE   == <<"T","I","T","L","E">>     \* a key the ${file:...} syntax accepts: [A-Z_][A-Z0-9_]*
T_missing == <<"m","i","s","s","i","n","g">>
T_nofile  == <<"n","o","f","i","l","e">>
T_amp     == <<"$","&">>

FilenameRef(file, key) == L_braces \o file \o <<".">> \o key \o L_close
FilePathRef(path, key) == L_fileOpen \o path \o <<":">> \o key \o <<"}">>
SimpleRef(key) == L_braces \o key \o L_close

\* all sequences over S of length at most n
SeqsUpTo(S, n) == UNION {[1..k -> S] : k \in 0..n}

\* the variables of one scope with ids base+1, base+2, ...
Declared(base, seq) ==
    [i \in 1..Len(seq) |-> Variable(base + i, seq[i].key, seq[i].value, seq[i].visibility)]

RenderTexts ==
    { SimpleRef(T_title),
      L_braces \o <<" ">> \o T_title \o <<" ">> \o L_close,
      SimpleRef(L_GLOBAL \o T_title),
      FilenameRef(T_docs, T_title),
      FilenameRef(T_docs, T_title) \o <<" ">> \o FilenameRef(T_docs, T_title),
      FilePathRef(L_dotSlash \o T_docs, T_TITLE),
      FilenameRef(T_docs, T_missing) }

RenderGlobals == [key : {T_title}, value : {T_Spec, <<>>}, visibility : {"public"}]
RenderLocalsA == [key : {T_title}, value : {T_Draft, <<>>}, visibility : {"public"}]
RenderLocalsB ==
    [key : {T_title}, value : {T_Draft, <<>>, T_amp}, visibility : {"public"}]
    \cup [key : {T_title}, value : {T_Draft}, visibility : {"private"}]
    \cup [key : {T_TITLE}, value : {T_Spec}, visibility : {"public"}]

\* notes is the current file and holds the block; docs is the other file
InitRender ==
    /\ \E text \in RenderTexts,
          gs \in SeqsUpTo(RenderGlobals, MaxRenderVars),
          la \in SeqsUpTo(RenderLocalsA, MaxRenderVars),
          lb \in SeqsUpTo(RenderLocalsB, MaxRenderVars) :
            project =
                 [files |-> << File("A", T_notes, Declared(10, la), <<Paragraph(1, text)>>),
                               File("B", T_docs, Declared(20, lb), <<>>) >>,
                  globalVariables |-> Declared(0, gs)]
    /\ currentFileId = "A"
    /\ saveStatus = "saved"
    /\ resolvedCache = EmptyCache
    /\ dependencyGraph = [dependencies |-> <<>>, circularRefs |-> <<>>]
    /\ ret = [op |-> "init"]
    /\ served = EmptyCache
    /\ UiIdle

\* crossFileVariableService.resolveContent(content, fileId, project) on the text of a block
ResolveContent ==
    \E fileId \in ProjectFileIds(project), f \in 1..Len(project.files) :
      \E content \in TextsOf(project.files[f]) :
          Rewritten("resolveContent", fileId, content,
                    resolveContent(content, fileId, project, resolvedCache))

NextRender == RenderBlock \/ ResolveContent \/ ClearCache

SpecRender == InitRender /\ [][NextRender]_vars

----------------------------------------------------------------------------
(* Claims checked under SpecRender *)

RECURSIVE SubstituteFrom(_, _, _, _)
\* s from position i on with every occurrence of lit replaced by the text rep, taken literally
SubstituteFrom(s, i, lit, rep) ==
    IF IndexOfFrom(s, i, lit) = 0 THEN Slice(s, i)
    ELSE SubSeq(s, i, IndexOfFrom(s, i, lit) - 1) \o rep
         \o SubstituteFrom(s, IndexOfFrom(s, i, lit) + Len(lit), lit, rep)

\* what the claim puts in place of a reference: its value when it resolved, a marker otherwise
Substitute(answer) ==
    IF answer.status = "resolved" THEN answer.resolvedValue
    ELSE L_error \o answer.error \o <<"]">>

RECURSIVE SubstituteAll(_, _, _)
SubstituteAll(text, answers, k) ==
    IF k > Len(answers) THEN text
    ELSE SubstituteAll(SubstituteFrom(text, 1, RefLiteral(answers[k]), Substitute(answers[k])),
                       answers, k + 1)

\* C5: resolveContent returns the content with every occurrence of each reference replaced
\* by the resolved value when the reference resolved (whatever the value, the empty string
\* included) and by '[ERROR: <message>]' only when it did not.
ResolvedValueSubstituted ==
    ret.op = "resolveContent" => ret.text = SubstituteAll(ret.content, ret.answers, 1)

GlobalsWithKey(proj, key) ==
    {i \in 1..Len(proj.globalVariables) : proj.globalVariables[i].key = key}

LocalsWithKey(proj, fileId, key) ==
    {i \in 1..Len(proj.files[FileIndexById(proj, fileId)].localVariables) :
        proj.files[FileIndexById(proj, fileId)].localVariables[i].key = key}

\* C6: the Preview pipeline replaces {{GLOBAL.title}} by the value of the global variable
\* title, or by '[Unknown Global: title]' when there is none; never by a file-not-found marker.
GlobalPrefixReachesGlobals ==
    (ret.op = "render" /\ ret.content = SimpleRef(L_GLOBAL \o T_title))
        => ret.text = (IF GlobalsWithKey(project, T_title) # {}
                       THEN project.globalVariables[Min(GlobalsWithKey(project, T_title))].value
                       ELSE L_unknownGlob \o T_title \o <<"]">>)

\* a global variable and a local variable of the file share the key, with different values
Collision(proj, fileId, key) ==
    \E g \in GlobalsWithKey(proj, key), l \in LocalsWithKey(proj, fileId, key) :
        proj.globalVariables[g].value
            # proj.files[FileIndexById(proj, fileId)].localVariables[l].value

Max(S) == CHOOSE x \in S : \A y \in S : y <= x

\* the value of the last local variable of the file with the key
LastLocalValue(proj, fileId, key) ==
    proj.files[FileIndexById(proj, fileId)].localVariables[Max(LocalsWithKey(proj, fileId, key))].value

GlobalValueRendered ==
    (ret.op = "render" /\ ret.content = SimpleRef(T_title)
       /\ Cardinality(GlobalsWithKey(project, T_title)) = 1
       /\ LocalsWithKey(project, ret.fileId, T_title) = {})
        => ret.text = project.globalVariables[Min(GlobalsWithKey(project, T_title))].value

----------------------------------------------------------------------------
(* SpecLookup: resolveCrossFileReference on the references of notes, in a    *)
(* project whose variables are drawn from a bounded set                      *)

MaxLookupLocals == 2     \* local variables of docs under SpecLookup
MaxLookupGlobals == 1    \* global variables under SpecLookup

LookupLocals ==
    [key : {T_title}, value : {T_Spec}, visibility : {"public", "private"}]
    \cup [key : {T_title}, value : {T_Draft}, visibility : {"protected"}]
    \cup [key : {T_TITLE}, value : {T_Draft}, visibility : {"public"}]

LookupGlobals == [key : {T_title}, value : {T_Spec, T_Draft}, visibility : {"public"}]

InitLookup ==
    /\ \E ls \in SeqsUpTo(LookupLocals, MaxLookupLocals),
          gs \in SeqsUpTo(LookupGlobals, MaxLookupGlobals) :
            project =
              [files |-> << File("A", T_notes, <<>>,
                                 << Paragraph(1, FilenameRef(T_docs, T_title)),
                                    Paragraph(2, FilenameRef(T_docs, T_missing)),
                                    Paragraph(3, FilePathRef(L_dotSlash \o T_nofile, T_TITLE)),
                                    Paragraph(4, FilePathRef(L_dotSlash \o T_docs, T_TITLE)) >>),
                            File("B", T_docs, Declared(20, ls), <<>>) >>,
               globalVariables |-> Declared(0, gs)]
    /\ currentFileId = "A"
    /\ saveStatus = "saved"
    /\ resolvedCache = EmptyCache
    /\ dependencyGraph = [dependencies |-> <<>>, circularRefs |-> <<>>]
    /\ ret = [op |-> "init"]
    /\ served = EmptyCache
    /\ UiIdle

\* crossFileVariableService.resolveCrossFileReference(ref, currentFileId, project) with a
\* currentFileId that is not the id of a file of the project
ResolveFromUnknown ==
    \E ref \in ProjectRefs(project) :
        \E r \in {resolveCrossFileReference(ref, UnknownFileId, project, resolvedCache)} :
            /\ resolvedCache' = r.cache
            /\ ret' = [op |-> "resolveFromUnknown", ref |-> ref, fileId |-> UnknownFileId,
                       key |-> CacheKey(UnknownFileId, ref), out |-> r.ref]
            /\ served' = Observe(served, <<r.ref>>, 1, UnknownFileId)
            /\ UNCHANGED <<project, currentFileId, saveStatus, dependencyGraph>>
            /\ UNCHANGED uiVars

NextLookup == Resolve \/ ResolveFromUnknown \/ ClearCache

SpecLookup == InitLookup /\ [][NextLookup]_vars

----------------------------------------------------------------------------
(* Claims on the lookup of resolveCrossFileReference: they hold under          *)
(* SpecLookup, where the project is not edited, and are checked under Spec    *)

\* the file name a path designates
PathName(path) ==
    IF StartsWith(path, L_dotSlash) THEN Slice(path, 3)
    ELSE IF StartsWith(path, L_dotDotSlash) THEN LastSegment(path)
    ELSE IF StartsWith(path, <<"/">>) THEN Slice(path, 2)
    ELSE path

\* the files the designator of a reference matches
Designated(ref, proj) ==
    {f \in 1..Len(proj.files) :
        IF ref.syntax = "filename"
        THEN StripExt(proj.files[f].name) = StripExt(ref.filePath)
        ELSE proj.files[f].name = PathName(ref.filePath)}

WithKey(variables, key) == {i \in 1..Len(variables) : variables[i].key = key}

\* the answer out to fileId is made from the variable v of the target file targetId
AnsweredFrom(out, v, fileId, targetId) ==
    IF v.visibility = "private" /\ fileId # targetId
    THEN out.status = "error" /\ out.resolvedValue = Undefined
    ELSE out.status = "resolved" /\ out.resolvedValue = v.value

\* the answer out is made from the first of the local variables with the key when there is
\* one, from the first of the global variables with the key when there is no local one
LocalThenGlobal(out, fileId, file, globals, key) ==
    IF WithKey(file.localVariables, key) # {}
    THEN AnsweredFrom(out, file.localVariables[Min(WithKey(file.localVariables, key))],
                      fileId, file.id)
    ELSE WithKey(globals, key) # {}
            => AnsweredFrom(out, globals[Min(WithKey(globals, key))], fileId, file.id)

\* C9: for a reference whose designator matches a file T, the answer is made from T's first
\* local variable with the key when T has one (also when a global variable has the key, and
\* with status 'error' rather than the global one when the local one is not accessible), and
\* from the first global variable with the key only when T has no local variable with it.
LocalBeforeGlobal ==
    (ret.op = "resolve" /\ Designated(ret.ref, project) # {})
        => LocalThenGlobal(ret.out, ret.fileId,
                           project.files[Min(Designated(ret.ref, project))],
                           project.globalVariables, ret.ref.variableName)

\* C10: when the designator matches a file T and the key is neither among T's local nor
\* among the global variables, the answer is 'not-found' with resolvedFileId T, no
\* resolvedValue and the error "Variable '<name>' not found in file <path>"; when the
\* designator matches no file, it is 'error' with 'File not found: <path>' and no
\* resolvedFileId.
UnresolvedAnswers ==
    ret.op = "resolve" =>
        IF Designated(ret.ref, project) = {}
        THEN /\ ret.out.status = "error"
             /\ ret.out.error = L_fileNotFound \o ret.ref.filePath
             /\ ret.out.resolvedFileId = "undefined"
        ELSE (/\ WithKey(project.files[Min(Designated(ret.ref, project))].localVariables,
                         ret.ref.variableName) = {}
              /\ WithKey(project.globalVariables, ret.ref.variableName) = {})
             => /\ ret.out.status = "not-found"
                /\ ret.out.resolvedFileId = project.files[Min(Designated(ret.ref, project))].id
                /\ ret.out.resolvedValue = Undefined
                /\ ret.out.error = L_variable \o ret.ref.variableName \o L_notFoundIn
                                   \o ret.ref.filePath

\* C11: every call of resolveCrossFileReference for a parsed reference, from a file of the
\* project or from an id no file has, with a cold or a warm cache, returns an answer (the
\* reference's own fields and the four result fields) whose status is 'resolved',
\* 'not-found' or 'error', never 'pending'.
ResolutionIsTotal ==
    ret.op \in {"resolve", "resolveFromUnknown"} =>
        /\ ret.out.status \in {"resolved", "not-found", "error"}
        /\ DOMAIN ret.out = {"syntax", "filePath", "variableName", "isRelative",
                             "status", "resolvedValue", "resolvedFileId", "error"}
        /\ ret.out.syntax = ret.ref.syntax /\ ret.out.filePath = ret.ref.filePath
        /\ ret.out.variableName = ret.ref.variableName
        /\ ret.ref.status = "pending"

\* C11 witness: a call from an id no file has, for a path that names the file docs, which
\* resolveFilePath answers with null: the answer is 'error', File not found
UnknownCallerAnswered ==
    /\ ret.op = "resolveFromUnknown"
    /\ ret.ref.syntax = "file-path" /\ Designated(ret.ref, project) # {}
    /\ ret.out.status = "error"
    /\ ret.out.error = L_fileNotFound \o ret.ref.filePath

----------------------------------------------------------------------------
(* SpecService: every operation of the service on the stored project, whose   *)
(* variable is being edited between the calls                                *)

\* the stored project after addVariable('B', title = 'Spec')
InitService ==
    /\ project = reduceAddVariable(StoredProject, "B",
                      Variable(FreshId(StoredProject), T_title, T_Spec, "public"))
    /\ currentFileId = "A"
    /\ saveStatus = "saved"
    /\ resolvedCache = EmptyCache
    /\ dependencyGraph = [dependencies |-> <<>>, circularRefs |-> <<>>]
    /\ ret = [op |-> "init"]
    /\ served = EmptyCache
    /\ UiIdle

NextService ==
    \/ UpdateVariable \/ SetCurrentFile
    \/ Resolve \/ ResolveContent \/ RenderBlock
    \/ GetFileReferences \/ Build \/ ClearCache

SpecService == InitService /\ [][NextService]_vars

\* a step of parseCrossFileReferences, resolveFilePath and resolveCrossFileReference (which
\* every resolving call runs), of resolveContent or of getFileReferences
ResolvingStep == ret'.op \in {"resolve", "resolveContent", "render", "getFileReferences"}

\* C12: the calls of the service leave the project (files, blocks, local and global
\* variables) and the rest of the application state as they were; a resolving call changes
\* at most resolvedCache, buildDependencyGraph at most resolvedCache and dependencyGraph.
ServiceIsReadOnly ==
    [][/\ (ResolvingStep \/ ret'.op = "build")
            => (project' = project /\ currentFileId' = currentFileId
                /\ saveStatus' = saveStatus)
       /\ ResolvingStep => dependencyGraph' = dependencyGraph]_vars

\* C12 witness: buildDependencyGraph has stored a graph with an edge and filled the cache,
\* and the project is one that an edit made between the calls
ServiceWroteOwnFields ==
    /\ ret.op = "build"
    /\ Len(dependencyGraph.dependencies) > 0
    /\ resolvedCache # EmptyCache
    /\ saveStatus = "unsaved"

----------------------------------------------------------------------------
(* SpecGraph: buildDependencyGraph on a three-file project whose references  *)
(* are drawn from a bounded set                                              *)

MaxGraphRefs == 1     \* reference blocks per file under SpecGraph

GraphIds == <<"A", "B", "C">>
GraphNames == <<T_notes, T_docs, T_guide>>

\* the file f with one local variable title and one block per target, each holding a
\* reference to the title of the target
GraphFile(f, visibility, targets) ==
    File(GraphIds[f], GraphNames[f],
         <<Variable(f, T_title, T_Spec, visibility)>>,
         [b \in 1..Len(targets) |-> Paragraph(b, FilenameRef(GraphNames[targets[b]], T_title))])

InitGraph ==
    /\ \E targets \in [1..Len(GraphIds) -> SeqsUpTo(1..Len(GraphIds), MaxGraphRefs)],
          visibility \in [1..Len(GraphIds) -> {"public", "private"}] :
            project = [files |-> [f \in 1..Len(GraphIds) |->
                                     GraphFile(f, visibility[f], targets[f])],
                       globalVariables |-> <<>>]
    /\ currentFileId = "A"
    /\ saveStatus = "saved"
    /\ resolvedCache = EmptyCache
    /\ dependencyGraph = [dependencies |-> <<>>, circularRefs |-> <<>>]
    /\ ret = [op |-> "init"]
    /\ served = EmptyCache
    /\ UiIdle

NextGraph == Build \/ ClearCache

SpecGraph == InitGraph /\ [][NextGraph]_vars

----------------------------------------------------------------------------
(* Claims checked under SpecGraph *)

\* the references of the blocks of a file, in block order
RECURSIVE FileRefsFrom(_, _)
FileRefsFrom(file, b) ==
    IF b > Len(file.blocks) THEN <<>>
    ELSE BlockRefs(file.blocks[b]) \o FileRefsFrom(file, b + 1)

\* the files that hold references
Referring(proj) == {f \in 1..Len(proj.files) : FileRefsFrom(proj.files[f], 1) # <<>>}

\* the file the first reference of file f designates, 0 when it designates none
Succ(proj, f) ==
    IF Designated(FileRefsFrom(proj.files[f], 1)[1], proj) = {} THEN 0
    ELSE Min(Designated(FileRefsFrom(proj.files[f], 1)[1], proj))

\* the first reference of file f resolves: its target holds the variable, readable from f
Resolvable(proj, f) ==
    /\ Succ(proj, f) # 0
    /\ \E i \in WithKey(proj.files[Succ(proj, f)].localVariables \o proj.globalVariables,
                        FileRefsFrom(proj.files[f], 1)[1].variableName) :
          /\ \A j \in WithKey(proj.files[Succ(proj, f)].localVariables \o proj.globalVariables,
                              FileRefsFrom(proj.files[f], 1)[1].variableName) : i <= j
          /\ (proj.files[Succ(proj, f)].localVariables \o proj.globalVariables)[i].visibility
                 = "private" => Succ(proj, f) = f

RECURSIVE Follow(_, _, _)
\* the file reached from f after k references
Follow(proj, f, k) == IF k = 0 THEN f ELSE Follow(proj, Succ(proj, f), k - 1)

\* the references of the project form exactly one ring: every referring file holds a single
\* reference, which resolves, and from each referring file the references lead to every
\* referring file and to no other
IsRing(proj) ==
    /\ Referring(proj) # {}
    /\ \A f \in Referring(proj) :
          /\ Len(FileRefsFrom(proj.files[f], 1)) = 1
          /\ Resolvable(proj, f)
          /\ Succ(proj, f) \in Referring(proj)
    /\ \A f, g \in Referring(proj) :
          \E k \in 1..Cardinality(Referring(proj)) : Follow(proj, f, k) = g

\* c lists the ids of the ring once, each followed by the id of the file it refers to, and
\* ends with its first id
ClosedRotation(proj, c) ==
    /\ Len(c) = Cardinality(Referring(proj)) + 1
    /\ c[1] = c[Len(c)]
    /\ {c[i] : i \in 1..(Len(c) - 1)} = {proj.files[f].id : f \in Referring(proj)}
    /\ \A i \in 1..(Len(c) - 1) :
          \E f \in Referring(proj) :
              c[i] = proj.files[f].id /\ c[i + 1] = proj.files[Succ(proj, f)].id

\* C4: for a project whose resolvable references form exactly one ring F1 -> ... -> Fn -> F1,
\* buildDependencyGraph called with an empty cache returns circularRefs with exactly one
\* cycle, a rotation of [F1, ..., Fn] closed by repeating its first element.
RingIsOneCycle ==
    (ret.op = "build" /\ ret.cold /\ IsRing(project))
        => /\ Len(ret.graph.circularRefs) = 1
           /\ ClosedRotation(project, ret.graph.circularRefs[1])

\* C4 witness: the graph of a ring of all three files, built with an empty cache
RingOfThreeBuilt ==
    /\ ret.op = "build" /\ ret.cold /\ IsRing(project)
    /\ Cardinality(Referring(project)) = Len(GraphIds)
    /\ Len(ret.graph.circularRefs) = 1

\* the files source and target are joined by a reference of source that resolved
ResolvedEdge(graph, source, target) ==
    \E d \in 1..Len(graph.dependencies) :
        /\ graph.dependencies[d].sourceFileId = source
        /\ graph.dependencies[d].targetFileId = target
        /\ \E r \in 1..Len(graph.dependencies[d].variableRefs) :
               graph.dependencies[d].variableRefs[r].status = "resolved"

\* C20: after buildDependencyGraph every reference carried by a dependency has the status
\* 'resolved', every pair of the adjacency map stems from a reference that resolved, and so
\* does every step of a reported cycle; a reference that ended in 'not-found' or 'error'
\* makes no edge.
EdgesOnlyFromResolved ==
    ret.op = "build" =>
        /\ \A d \in 1..Len(ret.graph.dependencies) :
              \A r \in 1..Len(ret.graph.dependencies[d].variableRefs) :
                  ret.graph.dependencies[d].variableRefs[r].status = "resolved"
        /\ \A source \in DOMAIN ret.fileRefs.adj :
              \A t \in 1..Len(ret.fileRefs.adj[source]) :
                  ResolvedEdge(ret.graph, source, ret.fileRefs.adj[source][t])
        /\ \A c \in 1..Len(ret.graph.circularRefs) :
              \A i \in 1..(Len(ret.graph.circularRefs[c]) - 1) :
                  ResolvedEdge(ret.graph, ret.graph.circularRefs[c][i],
                               ret.graph.circularRefs[c][i + 1])

----------------------------------------------------------------------------
(* Blocks: tables, embed blocks and the reducer cases that edit blocks     *)

\* TableData: rows holds the addresses of the row arrays, alignments is optional
TableContent(headers, rowAddrs, alignments) ==
    [kind |-> "table", headers |-> headers, rows |-> rowAddrs, alignments |-> alignments]

\* EmbedData
EmbedContent(sourceFileId, sourceBlockId) ==
    [kind |-> "embed", sourceFileId |-> sourceFileId, sourceBlockId |-> sourceBlockId,
     isLinked |-> TRUE]

NoBlock == [type |-> "undefined"]     \* the undefined of a find that found no block

\* file.blocks.find(b => b.id === blockId), 0 when there is none
BlockIndexById(file, blockId) ==
    IF \E b \in 1..Len(file.blocks) : file.blocks[b].id = blockId
    THEN Min({b \in 1..Len(file.blocks) : file.blocks[b].id = blockId})
    ELSE 0

\* sourceFile?.blocks.find(b => b.id === embedData.sourceBlockId) for the file sourceFileId
FindBlock(proj, fileId, blockId) ==
    LET f == FileIndexById(proj, fileId)
    IN  IF f = 0 THEN NoBlock
        ELSE LET b == BlockIndexById(proj.files[f], blockId)
             IN  IF b = 0 THEN NoBlock ELSE proj.files[f].blocks[b]

\* the block an embed block points to, NoBlock when the file or the block is gone
SourceBlock(proj, block) ==
    FindBlock(proj, block.content.sourceFileId, block.content.sourceBlockId)

\* a DELETE_FILE that also removes the embed blocks pointing into the deleted file
reduceDeleteFileCascading(proj, fileId) ==
    LET Keep(file) == file.id # fileId
        Stays(block) == ~(block.type = "embed" /\ block.content.sourceFileId = fileId)
        kept == SelectSeq(proj.files, Keep)
    IN  [proj EXCEPT !.files = [i \in 1..Len(kept) |->
                                   [kept[i] EXCEPT !.blocks = SelectSeq(@, Stays)]]]

\* case 'DELETE_FILE'
reduceDeleteFile(proj, fileId) ==
    LET Keep(file) == file.id # fileId
    IN  [proj EXCEPT !.files = SelectSeq(@, Keep)]

\* case 'UPDATE_BLOCK' with updates = { content }
reduceUpdateBlock(proj, fileId, blockId, content) ==
    LET B(block) == IF block.id = blockId THEN [block EXCEPT !.content = content] ELSE block
        F(file) == IF file.id = fileId
                   THEN [file EXCEPT !.blocks = [b \in 1..Len(file.blocks) |-> B(file.blocks[b])]]
                   ELSE file
    IN  [proj EXCEPT !.files = [i \in 1..Len(proj.files) |-> F(proj.files[i])]]

\* case 'DELETE_BLOCK'
reduceDeleteBlock(proj, fileId, blockId) ==
    LET Keep(block) == block.id # blockId
        F(file) == IF file.id = fileId THEN [file EXCEPT !.blocks = SelectSeq(@, Keep)] ELSE file
    IN  [proj EXCEPT !.files = [i \in 1..Len(proj.files) |-> F(proj.files[i])]]

\* the block INLINE_EMBEDDED_BLOCK leaves where it finds block (of the metadata the version
\* is kept, the dates are left out)
Inlined(proj, block, embedBlockId) ==
    IF block.id = embedBlockId /\ block.type = "embed" /\ SourceBlock(proj, block) # NoBlock
    THEN [block EXCEPT !.type = SourceBlock(proj, block).type,
                       !.content = SourceBlock(proj, block).content,
                       !.name = SourceBlock(proj, block).name,
                       !.version = @ + 1]
    ELSE block

\* case 'INLINE_EMBEDDED_BLOCK'
reduceInlineEmbeddedBlock(proj, fileId, embedBlockId) ==
    LET F(file) == IF file.id = fileId
                   THEN [file EXCEPT !.blocks =
                            [b \in 1..Len(file.blocks) |-> Inlined(proj, file.blocks[b], embedBlockId)]]
                   ELSE file
    IN  [proj EXCEPT !.files = [i \in 1..Len(proj.files) |-> F(proj.files[i])]]

----------------------------------------------------------------------------
(* Preview.markdown: the markdown projection of the current file.          *)
(* Of the block types, the headings, paragraphs, tables and embed blocks   *)
(* are projected as the source does; blocks of the other types (lists,    *)
(* code, quote, image, link, jsonschema, output) appear only as the       *)
(* source of an embed block.                                               *)

L_emptyTable   == <<"[","E","m","p","t","y"," ","T","a","b","l","e","]">>
L_embedded     == <<"[","E","m","b","e","d","d","e","d"," ">>
L_content      == <<" ","c","o","n","t","e","n","t","]">>
L_embNotFound  == <<"[","E","m","b","e","d","d","e","d"," ","b","l","o","c","k"," ",
                    "n","o","t"," ","f","o","u","n","d","]">>
L_block        == <<" ","B","l","o","c","k","]">>
L_blank        == <<"\n","\n">>

Headings == <<"h1", "h2", "h3", "h4", "h5", "h6">>     \* BlockType.Heading1 .. Heading6

\* the value of a BlockType as text
TypeText(type) ==
    CASE InSeq(type, Headings) -> <<"h", <<"1","2","3","4","5","6">>[IndexOf(Headings, type)]>>
      [] type = "p"      -> <<"p">>
      [] type = "table"  -> <<"t","a","b","l","e">>
      [] type = "output" -> <<"o","u","t","p","u","t">>
      [] type = "embed"  -> <<"e","m","b","e","d">>

RECURSIVE Join(_, _)
\* Array.prototype.join(sep) on an array of texts
Join(texts, sep) ==
    IF texts = <<>> THEN <<>>
    ELSE IF Len(texts) = 1 THEN texts[1]
    ELSE texts[1] \o sep \o Join(Tail(texts), sep)

\* tableData.alignments?.[idx] || 'left'
AlignmentAt(tableData, idx) ==
    IF tableData.alignments # Undefined /\ idx \in DOMAIN tableData.alignments
    THEN tableData.alignments[idx]
    ELSE "left"

\* a separator row that ignores the alignments
SeparatorCellPlain(alignment) == <<"-","-","-">>

\* the cell of the separator row for an alignment
SeparatorCell(alignment) ==
    CASE alignment = "center" -> <<":","-","-","-",":">>
      [] alignment = "right"  -> <<"-","-","-",":">>
      [] OTHER                -> <<"-","-","-">>

\* the row of cells: pipe, blank, the cells joined by ' | ', blank, pipe
PipeRow(cells) == <<"|", " ">> \o Join(cells, <<" ", "|", " ">>) \o <<" ", "|">>

\* tableData && tableData.headers && tableData.headers.length > 0
HasHeaders(content) == content.kind = "table" /\ Len(content.headers) > 0

\* headerRow, separatorRow and dataRows joined by newlines
TableMarkdown(tableData, heap) ==
    PipeRow(tableData.headers)
    \o <<"\n">>
    \o PipeRow([idx \in 1..Len(tableData.headers) |-> SeparatorCell(AlignmentAt(tableData, idx))])
    \o <<"\n">>
    \o Join([r \in 1..Len(tableData.rows) |-> PipeRow(heap[tableData.rows[r]])], <<"\n">>)

\* a projection that follows the pointer of a source that is itself an embed block
EmbedMarkdownFollowing(block, proj, heap) ==
    LET sourceBlock == SourceBlock(proj, block)
        inner == IF sourceBlock # NoBlock /\ sourceBlock.type = "embed"
                 THEN SourceBlock(proj, sourceBlock)
                 ELSE sourceBlock
    IN  IF inner = NoBlock THEN L_embNotFound \o L_blank
        ELSE IF IsText(inner) THEN inner.content.text \o L_blank
        ELSE L_embedded \o TypeText(inner.type) \o L_content \o L_blank

\* case BlockType.Embed of the markdown projection, for an embed block with a content
EmbedMarkdown(block, proj, heap) ==
    LET sourceBlock == SourceBlock(proj, block)
    IN  IF sourceBlock = NoBlock THEN L_embNotFound \o L_blank
        ELSE IF IsText(sourceBlock) THEN sourceBlock.content.text \o L_blank
        ELSE IF sourceBlock.type = "table"
             THEN IF HasHeaders(sourceBlock.content)
                  THEN TableMarkdown(sourceBlock.content, heap) \o L_blank
                  ELSE L_emptyTable \o L_blank
        ELSE L_embedded \o TypeText(sourceBlock.type) \o L_content \o L_blank

\* what the switch of currentFile.blocks.forEach appends to result for block
BlockMarkdown(block, proj, heap) ==
    CASE InSeq(block.type, Headings) ->
             IF IsText(block)
             THEN [i \in 1..IndexOf(Headings, block.type) |-> "#"] \o <<" ">>
                  \o block.content.text \o L_blank
             ELSE <<>>
      [] block.type = "p" -> IF IsText(block) THEN block.content.text \o L_blank ELSE <<>>
      [] block.type = "table" ->
             IF HasHeaders(block.content) THEN TableMarkdown(block.content, heap)
             ELSE L_emptyTable
      [] block.type = "embed" -> EmbedMarkdown(block, proj, heap)
      [] OTHER -> <<"[">> \o TypeText(block.type) \o L_block

----------------------------------------------------------------------------
(* Preview.renderedContent: the element made for each block of the file.   *)
(* An element is a record: tag, key and text, or tag, key, headers and     *)
(* rows for a table; NoNode where the switch ends without a return.        *)

NoNode == [tag |-> "undefined"]

\* the block whose content an element shows: the source of an embed block, else the block
Shown(block, proj) == IF block.type = "embed" THEN SourceBlock(proj, block) ELSE block

\* the block is rendered as a heading or a paragraph
IsTextual(block) == (InSeq(block.type, Headings) \/ block.type = "p") /\ IsText(block)

\* the texts handed to resolveVariables for a block, in the order of the calls
NodeTexts(block, proj, heap) ==
    LET shown == Shown(block, proj)
    IN  IF shown = NoBlock THEN <<>>
        ELSE IF IsTextual(shown) THEN <<shown.content.text>>
        ELSE IF shown.type = "table" /\ HasHeaders(shown.content)
             THEN shown.content.headers
                  \o Join([r \in 1..Len(shown.content.rows) |-> heap[shown.content.rows[r]]], <<>>)
        ELSE <<>>

RECURSIVE ResolveTexts(_, _, _, _, _, _)
RECURSIVE ResolveTextsNext(_, _, _, _, _, _)
\* resolveVariables(text, allVariables) for each of the texts, in order
ResolveTexts(texts, k, fileId, proj, cache, out) ==
    IF k > Len(texts) THEN [texts |-> out.texts, answers |-> out.answers, cache |-> cache]
    ELSE ResolveTextsNext(texts, k, fileId, proj, out,
             resolveVariables(texts[k], AllVariables(proj, fileId), fileId, proj, cache))

ResolveTextsNext(texts, k, fileId, proj, out, r) ==
    ResolveTexts(texts, k + 1, fileId, proj, r.cache,
                 [texts |-> Append(out.texts, r.text), answers |-> out.answers \o r.answers])

\* the resolved cells of row r of a table whose resolved texts are texts (headers first)
RowCells(tableData, heap, texts, r) ==
    LET before == Len(tableData.headers)
                  + Len(Join([q \in 1..(r - 1) |-> heap[tableData.rows[q]]], <<>>))
    IN  SubSeq(texts, before + 1, before + Len(heap[tableData.rows[r]]))

\* the element returned for block; texts are its resolved texts
RenderNode(block, proj, heap, texts) ==
    LET shown == Shown(block, proj)
        embedded == block.type = "embed"
    IN  IF shown = NoBlock
        THEN [tag |-> "div", key |-> block.id, text |-> L_embNotFound]
        ELSE IF IsTextual(shown)
             THEN [tag |-> shown.type, key |-> block.id, text |-> texts[1]]
        ELSE IF InSeq(shown.type, Headings) \/ shown.type = "p" THEN NoNode
        ELSE IF shown.type = "table"
             THEN IF HasHeaders(shown.content)
                  THEN [tag |-> "table", key |-> block.id,
                        headers |-> SubSeq(texts, 1, Len(shown.content.headers)),
                        rows |-> [r \in 1..Len(shown.content.rows) |->
                                     RowCells(shown.content, heap, texts, r)]]
                  ELSE IF embedded THEN NoNode
                  ELSE [tag |-> "div", key |-> block.id, text |-> L_emptyTable]
        ELSE IF embedded
             THEN [tag |-> "div", key |-> block.id,
                   text |-> L_embedded \o TypeText(shown.type) \o L_content]
        ELSE [tag |-> "div", key |-> block.id, text |-> <<"[">> \o TypeText(shown.type) \o L_block]

\* the texts of the blocks before block b of the file, and those of block b, in the resolved texts
TextsBefore(file, proj, heap, b) ==
    Len(Join([q \in 1..(b - 1) |-> NodeTexts(file.blocks[q], proj, heap)], <<>>))

\* currentFile.blocks.map(...) given the resolved texts of all blocks
RenderNodes(file, proj, heap, texts) ==
    [b \in 1..Len(file.blocks) |->
        RenderNode(file.blocks[b], proj, heap,
                   SubSeq(texts, TextsBefore(file, proj, heap, b) + 1,
                          TextsBefore(file, proj, heap, b)
                          + Len(NodeTexts(file.blocks[b], proj, heap))))]

----------------------------------------------------------------------------
(* SpecEmbed: a loaded project whose files hold embed blocks, edited in    *)
(* the block editor and projected by the Preview                           *)

MaxVersion == 3     \* the versions of a block counted under SpecEmbed

\* Preview: the markdown memo, then the renderedContent memo, of the current file
PreviewFile ==
    /\ currentFileId # Null
    /\ FileIndexById(project, currentFileId) # 0
    /\ \E file \in {project.files[FileIndexById(project, currentFileId)]} :
       \E parts \in {[b \in 1..Len(file.blocks) |-> BlockMarkdown(file.blocks[b], project, rows)]} :
       \E m \in {resolveVariables(Join(parts, <<>>), AllVariables(project, currentFileId),
                                  currentFileId, project, resolvedCache)} :
       \E t \in {ResolveTexts(Join([b \in 1..Len(file.blocks) |->
                                       NodeTexts(file.blocks[b], project, rows)], <<>>),
                              1, currentFileId, project, m.cache,
                              [texts |-> <<>>, answers |-> <<>>])} :
          /\ resolvedCache' = t.cache
          /\ served' = Observe(served, m.answers \o t.answers, 1, currentFileId)
          /\ ret' = [op |-> "preview", fileId |-> currentFileId, parts |-> parts,
                     markdown |-> m.text, tree |-> RenderNodes(file, project, rows, t.texts)]
    /\ UNCHANGED <<project, currentFileId, saveStatus, dependencyGraph>>
    /\ UNCHANGED uiVars

\* actions.deleteFile -> DELETE_FILE
DeleteFile ==
    \E fileId \in ProjectFileIds(project) :
        /\ project' = reduceDeleteFile(project, fileId)
        /\ currentFileId' = IF currentFileId = fileId THEN Null ELSE currentFileId
        /\ saveStatus' = "unsaved"
        /\ ret' = [op |-> "deleteFile", fileId |-> fileId]
        /\ UNCHANGED <<resolvedCache, dependencyGraph, served>>
        /\ UNCHANGED uiVars

\* the blocks of the current file, which the block editor shows
CurrentBlocks ==
    IF currentFileId # Null /\ FileIndexById(project, currentFileId) # 0
    THEN {project.files[FileIndexById(project, currentFileId)].blocks[b] :
            b \in 1..Len(project.files[FileIndexById(project, currentFileId)].blocks)}
    ELSE {}

\* BlockEditor / EmbedBlock delete button: actions.deleteBlock -> DELETE_BLOCK
DeleteBlock ==
    \E block \in CurrentBlocks :
        /\ project' = reduceDeleteBlock(project, currentFileId, block.id)
        /\ saveStatus' = "unsaved"
        /\ ret' = [op |-> "deleteBlock", fileId |-> currentFileId, blockId |-> block.id]
        /\ UNCHANGED <<currentFileId, resolvedCache, dependencyGraph, served>>
        /\ UNCHANGED uiVars

\* EmbedBlock.handleInline: actions.inlineEmbeddedBlock -> INLINE_EMBEDDED_BLOCK; the Inline
\* button is rendered when the source file and the source block are found
\* (a block is inlined while its version is below MaxVersion)
InlineEmbeddedBlock ==
    \E block \in {b \in CurrentBlocks : b.type = "embed" /\ SourceBlock(project, b) # NoBlock} :
        /\ block.version < MaxVersion
        /\ project' = reduceInlineEmbeddedBlock(project, currentFileId, block.id)
        /\ saveStatus' = "unsaved"
        /\ ret' = [op |-> "inline", fileId |-> currentFileId, blockId |-> block.id,
                   source |-> SourceBlock(project, block)]
        /\ inlined' = inlined \cup {[fileId |-> currentFileId, blockId |-> block.id,
                                     sourceFileId |-> block.content.sourceFileId,
                                     sourceBlockId |-> block.content.sourceBlockId]}
        /\ UNCHANGED <<currentFileId, resolvedCache, dependencyGraph, served>>
        /\ UNCHANGED <<rows, isLoading, appError, saveTimeout, saving, storage, effectDeps, exec,
                       walk>>

EditedTexts == {T_Draft}      \* what is typed into a text block
EditedCells == {<<"9">>}      \* what is typed into a table cell

\* BlockEditor.handleContentChange: actions.updateBlock(fileId, block.id, { content })
UpdateBlock ==
    \E block \in {b \in CurrentBlocks : IsText(b)}, text \in EditedTexts :
        /\ project' = reduceUpdateBlock(project, currentFileId, block.id, TextContent(text))
        /\ saveStatus' = "unsaved"
        /\ ret' = [op |-> "updateBlock", fileId |-> currentFileId, blockId |-> block.id]
        /\ UNCHANGED <<currentFileId, resolvedCache, dependencyGraph, served>>
        /\ UNCHANGED uiVars

\* BlockEditor, onChange of a table cell: newRows = [...tableData.rows] copies the array of
\* rows, newRows[rowIndex][colIndex] = value writes into the row array itself, and
\* handleTableContentChange({ ...tableData, rows: newRows }) dispatches UPDATE_BLOCK
EditTableCell ==
    \E block \in {b \in CurrentBlocks : b.type = "table" /\ b.content.kind = "table"} :
    \E rowIndex \in DOMAIN block.content.rows, value \in EditedCells :
    \E colIndex \in DOMAIN rows[block.content.rows[rowIndex]] :
        /\ rows' = [rows EXCEPT ![block.content.rows[rowIndex]][colIndex] = value]
        /\ project' = reduceUpdateBlock(project, currentFileId, block.id, block.content)
        /\ saveStatus' = "unsaved"
        /\ ret' = [op |-> "editCell", fileId |-> currentFileId, blockId |-> block.id]
        /\ UNCHANGED <<currentFileId, resolvedCache, dependencyGraph, served>>
        /\ UNCHANGED <<isLoading, appError, saveTimeout, saving, storage, effectDeps, exec, inlined, walk>>

T_A == <<"A">>
T_B == <<"B">>

\* the block of docs other blocks point to: a paragraph, a heading, a table or an embed block
SourceBlocks ==
    {Block(3, T_guide, "p", TextContent(T_Spec)),
     Block(3, T_guide, "h2", TextContent(T_Spec)),
     Block(3, T_guide, "table", TableContent(<<T_A, T_B>>, <<1>>, <<"left", "left">>))}
    \cup {Block(3, T_guide, "embed", EmbedContent(f, b)) : f \in {"A"}, b \in {1, 2}}
    \cup {Block(3, T_guide, "embed", EmbedContent("B", 3))}

\* the first block of notes: an embed block (of a block of docs, of itself, of a block of a
\* file the project does not hold) or a paragraph
FirstBlocks ==
    {Block(1, Undefined, "embed", EmbedContent("B", 3)),
     Block(1, Undefined, "embed", EmbedContent("A", 1)),
     Block(1, Undefined, "embed", EmbedContent(UnknownFileId, 3)),
     Paragraph(1, T_Spec)}

\* LOAD_PROJECT_SUCCESS with a stored project: notes holds a first block and a paragraph,
\* docs a named block; the one row array holds the cells 1 and 2
InitEmbed ==
    /\ \E first \in FirstBlocks, source \in SourceBlocks :
          project = [files |-> << File("A", T_notes, <<>>, <<first, Paragraph(2, T_Spec)>>),
                                  File("B", T_docs, <<>>, <<source>>) >>,
                     globalVariables |-> <<>>]
    /\ currentFileId = "A"
    /\ saveStatus = "saved"
    /\ resolvedCache = EmptyCache
    /\ dependencyGraph = [dependencies |-> <<>>, circularRefs |-> <<>>]
    /\ ret = [op |-> "init"]
    /\ served = EmptyCache
    /\ rows = << <<<<"1">>, <<"2">>>> >>
    /\ isLoading = FALSE
    /\ appError = Null
    /\ saveTimeout = <<>>
    /\ saving = <<>>
    /\ storage = <<>>
    /\ effectDeps = <<>>
    /\ exec = <<>>
    /\ inlined = {}
    /\ walk = <<>>

NextEmbed ==
    \/ SetCurrentFile \/ DeleteFile \/ DeleteBlock
    \/ InlineEmbeddedBlock \/ UpdateBlock \/ EditTableCell
    \/ PreviewFile

SpecEmbed == InitEmbed /\ [][NextEmbed]_vars

----------------------------------------------------------------------------
(* Embed blocks in the projections *)

T_embedOfEmbed == <<"[","E","m","b","e","d","d","e","d"," ","e","m","b","e","d"," ",
                    "c","o","n","t","e","n","t","]">>
T_notFound     == <<"[","E","m","b","e","d","d","e","d"," ","b","l","o","c","k"," ",
                    "n","o","t"," ","f","o","u","n","d","]">>

\* the file the last projection was made of
Projected == project.files[FileIndexById(project, ret.fileId)]

\* the blocks of the projected file that embed a block which is itself an embed block
EmbedsOfEmbeds ==
    {b \in 1..Len(Projected.blocks) :
        /\ Projected.blocks[b].type = "embed"
        /\ SourceBlock(project, Projected.blocks[b]) # NoBlock
        /\ SourceBlock(project, Projected.blocks[b]).type = "embed"}

\* C13: an embed block whose source block is itself an embed block is projected, in the
\* markdown and in the rendered elements, as the marker [Embedded embed content]; the inner
\* pointer is not followed, whether the chain ends, is dangling or loops back
EmbedOfEmbedIsOpaque ==
    ret.op = "preview" =>
        \A b \in EmbedsOfEmbeds :
            /\ ret.parts[b] = T_embedOfEmbed \o <<"\n", "\n">>
            /\ IndexOfFrom(ret.markdown, 1, T_embedOfEmbed) # 0
            /\ ret.tree[b] = [tag |-> "div", key |-> Projected.blocks[b].id,
                              text |-> T_embedOfEmbed]

\* the first block of notes embeds the block of docs, which embeds it back, and notes was
\* projected
EmbedLoopProjected ==
    /\ ret.op = "preview"
    /\ ret.fileId = "A"
    /\ 1 \in EmbedsOfEmbeds
    /\ SourceBlock(project, SourceBlock(project, Projected.blocks[1])) = Projected.blocks[1]
    /\ Projected.blocks[1].content.sourceFileId = "B"
    /\ ret.parts[1] = T_embedOfEmbed \o <<"\n", "\n">>

\* the embed blocks of the files other than fileId that point into the file fileId, each
\* with the id of the file that holds it
PointingInto(proj, fileId) ==
    UNION {{[fileId |-> proj.files[f].id, block |-> proj.files[f].blocks[b]] :
              b \in {c \in 1..Len(proj.files[f].blocks) :
                       /\ proj.files[f].blocks[c].type = "embed"
                       /\ proj.files[f].blocks[c].content.sourceFileId = fileId}}
           : f \in {g \in 1..Len(proj.files) : proj.files[g].id # fileId}}

\* the embed block e is in its file as it was, and points to nothing
LeftDangling(e) ==
    /\ FindBlock(project', e.fileId, e.block.id) = e.block
    /\ SourceBlock(project', e.block) = NoBlock

\* the projection returned by the step shows block b of the file as not found, and every
\* paragraph of the file with its text
ShownNotFound(file, b) ==
    /\ ret'.parts[b] = T_notFound \o <<"\n", "\n">>
    /\ ret'.tree[b] = [tag |-> "div", key |-> file.blocks[b].id, text |-> T_notFound]
    /\ Len(ret'.parts) = Len(file.blocks)
    /\ Len(ret'.tree) = Len(file.blocks)
    /\ IndexOfFrom(ret'.markdown, 1, T_notFound) # 0
    /\ \A c \in 1..Len(file.blocks) :
          file.blocks[c].type = "p" /\ IsText(file.blocks[c]) =>
              /\ ret'.parts[c] = file.blocks[c].content.text \o <<"\n", "\n">>
              /\ ret'.tree[c] = [tag |-> "p", key |-> file.blocks[c].id,
                                 text |-> file.blocks[c].content.text]
              /\ IndexOfFrom(ret'.markdown, 1, ret'.parts[c]) # 0

\* C14: after DELETE_FILE of a file, or DELETE_BLOCK of one of its blocks, every embed block
\* of another file that points to what was deleted is still in its file, unchanged, and
\* points to nothing; a projection shows an embed block without a source block as
\* [Embedded block not found] and projects the other blocks of the file as always
DanglingEmbedTolerated ==
    [][/\ ret'.op = "deleteFile" =>
            \A e \in PointingInto(project, ret'.fileId) : LeftDangling(e)
       /\ ret'.op = "deleteBlock" =>
            \A e \in PointingInto(project, ret'.fileId) :
                e.block.content.sourceBlockId = ret'.blockId => LeftDangling(e)
       /\ ret'.op = "preview" =>
            \A b \in 1..Len(Projected'.blocks) :
                /\ Projected'.blocks[b].type = "embed"
                /\ SourceBlock(project', Projected'.blocks[b]) = NoBlock
                => ShownNotFound(Projected', b)]_vars

\* docs was deleted, and the projection of notes shows the embed block that points into
\* docs as not found, followed by the paragraph
DanglingEmbedProjected ==
    /\ ret.op = "preview"
    /\ ret.fileId = "A"
    /\ "B" \notin ProjectFileIds(project)
    /\ Projected.blocks[1].type = "embed"
    /\ Projected.blocks[1].content.sourceFileId = "B"
    /\ ret.parts = <<T_notFound \o <<"\n", "\n">>, T_Spec \o <<"\n", "\n">> >>

----------------------------------------------------------------------------
(* Inlining *)

\* the block blockId of the file fileId after the step
After(fileId, blockId) == FindBlock(project', fileId, blockId)

\* the block is an embed block, or its content is a pointer to a source block
IsEmbed(block) == block.type = "embed" \/ block.content.kind = "embed"

\* C15: after INLINE_EMBEDDED_BLOCK on an embed block whose source block exists, the block
\* has its id, the type, content and name of the source block, and is not an embed block,
\* whatever the type of the source block; and no block that was inlined is later an embed
\* block with the pointer it had
InlineDiscardsLink ==
    [][/\ ret'.op = "inline" /\ ret'.source # NoBlock =>
            /\ After(ret'.fileId, ret'.blockId) # NoBlock
            /\ After(ret'.fileId, ret'.blockId).type = ret'.source.type
            /\ After(ret'.fileId, ret'.blockId).content = ret'.source.content
            /\ After(ret'.fileId, ret'.blockId).name = ret'.source.name
            /\ ~IsEmbed(After(ret'.fileId, ret'.blockId))
       /\ \A l \in inlined :
            After(l.fileId, l.blockId) # NoBlock =>
                ~(/\ After(l.fileId, l.blockId).type = "embed"
                  /\ After(l.fileId, l.blockId).content.sourceFileId = l.sourceFileId
                  /\ After(l.fileId, l.blockId).content.sourceBlockId = l.sourceBlockId)]_vars

\* what a content says: for a table, with the cells of its row arrays
ContentValue(block, heap) ==
    IF block.content.kind = "table"
    THEN [block.content EXCEPT !.rows = [r \in DOMAIN @ |-> heap[@[r]]]]
    ELSE block.content

\* the step is an edit of the content of the block blockId of the file fileId
Edits(fileId, blockId) ==
    /\ ret'.op \in {"updateBlock", "editCell"}
    /\ ret'.fileId = fileId
    /\ ret'.blockId = blockId

\* the content of the block blockId of the file fileId says after the step what it said before
SameContent(fileId, blockId) ==
    FindBlock(project, fileId, blockId) # NoBlock /\ After(fileId, blockId) # NoBlock =>
        ContentValue(After(fileId, blockId), rows')
        = ContentValue(FindBlock(project, fileId, blockId), rows)

\* C16: after INLINE_EMBEDDED_BLOCK, an edit of the content of the inlined block (an edit of
\* a table cell included) leaves the content of the source block as it was, and an edit of
\* the source block leaves the content of the inlined block as it was
InlinedIsIndependent ==
    [][\A l \in inlined :
          <<l.fileId, l.blockId>> # <<l.sourceFileId, l.sourceBlockId>> =>
              /\ Edits(l.fileId, l.blockId) => SameContent(l.sourceFileId, l.sourceBlockId)
              /\ Edits(l.sourceFileId, l.sourceBlockId) => SameContent(l.fileId, l.blockId)]_vars

----------------------------------------------------------------------------
(* SpecTable: the projection of a file that holds one table                *)

MaxColumns == 2     \* headers of the table
MaxRows == 3        \* data rows of the table

Alignments == {"left", "center", "right"}

\* a number below 100 as text
NumText(n) ==
    LET digits == <<"0","1","2","3","4","5","6","7","8","9">>
    IN  IF n < 10 THEN <<digits[n + 1]>> ELSE <<digits[(n \div 10) + 1], digits[(n % 10) + 1]>>

\* the table with k columns named A, B, ... and n rows that count the cells from 1
DrawnTable(k, n, alignments) ==
    Block(1, Undefined, "table",
          TableContent([c \in 1..k |-> <<UpperSeq[c]>>], [r \in 1..n |-> r], alignments))

DrawnRows(k, n) == [r \in 1..n |-> [c \in 1..k |-> NumText((r - 1) * k + c)]]

\* LOAD_PROJECT_SUCCESS with a stored project whose file notes holds one table; alignments
\* is missing, or holds an alignment for some or all of the columns
InitTable ==
    /\ \E k \in 1..MaxColumns, n \in 0..MaxRows :
       \E alignments \in {Undefined} \cup UNION {[1..a -> Alignments] : a \in 0..k} :
          /\ project = [files |-> << File("A", T_notes, <<>>, <<DrawnTable(k, n, alignments)>>) >>,
                        globalVariables |-> <<>>]
          /\ rows = DrawnRows(k, n)
    /\ currentFileId = "A"
    /\ saveStatus = "saved"
    /\ resolvedCache = EmptyCache
    /\ dependencyGraph = [dependencies |-> <<>>, circularRefs |-> <<>>]
    /\ ret = [op |-> "init"]
    /\ served = EmptyCache
    /\ isLoading = FALSE
    /\ appError = Null
    /\ saveTimeout = <<>>
    /\ saving = <<>>
    /\ storage = <<>>
    /\ effectDeps = <<>>
    /\ exec = <<>>
    /\ inlined = {}
    /\ walk = <<>>

NextTable == PreviewFile

SpecTable == InitTable /\ [][NextTable]_vars

RECURSIVE SplitLines(_)
\* the lines of a text
SplitLines(s) ==
    LET j == SpanUntil(s, 1, "\n")
    IN  IF j > Len(s) THEN <<s>> ELSE <<SubSeq(s, 1, j - 1)>> \o SplitLines(Slice(s, j + 1))

RECURSIVE CellsFrom(_, _)
\* the cells from cell i on, each between a blank and a blank with a pipe
CellsFrom(cells, i) ==
    IF i > Len(cells) THEN <<>>
    ELSE <<" ">> \o cells[i] \o <<" ", "|">> \o CellsFrom(cells, i + 1)

\* the separator cell the statement gives to column i of the table
StatedSeparator(tableData, i) ==
    IF tableData.alignments # Undefined /\ i <= Len(tableData.alignments)
       /\ tableData.alignments[i] = "center"
    THEN <<":","-","-","-",":">>
    ELSE IF tableData.alignments # Undefined /\ i <= Len(tableData.alignments)
            /\ tableData.alignments[i] = "right"
    THEN <<"-","-","-",":">>
    ELSE <<"-","-","-">>

\* the lines the statement gives to a table: header row, separator row, data rows
StatedLines(tableData, heap) ==
    << <<"|">> \o CellsFrom(tableData.headers, 1),
       <<"|">> \o CellsFrom([i \in 1..Len(tableData.headers) |-> StatedSeparator(tableData, i)], 1) >>
    \o [r \in 1..Len(tableData.rows) |-> <<"|">> \o CellsFrom(heap[tableData.rows[r]], 1)]

\* the lines of a text; a newline at the very end ends the last line and starts no other
LinesOf(text) ==
    IF text # <<>> /\ text[Len(text)] = "\n"
    THEN SplitLines(SubSeq(text, 1, Len(text) - 1))
    ELSE SplitLines(text)

T_threeLines == <<"|"," ","A"," ","|"," ","B"," ","|","\n",
                  "|"," ","-","-","-"," ","|"," ","-","-","-"," ","|","\n",
                  "|"," ","1"," ","|"," ","2"," ","|">>

\* C17: a table block with at least one header is projected to the header row, one
\* separator row with a cell per header (:---: for center, ---: for right, --- otherwise
\* and when alignments is missing), and one row per data row, in order
TableProjection ==
    ret.op = "preview" =>
        \A b \in 1..Len(Projected.blocks) :
            Projected.blocks[b].type = "table" /\ HasHeaders(Projected.blocks[b].content) =>
                /\ LinesOf(ret.parts[b]) = StatedLines(Projected.blocks[b].content, rows)
                /\ Len(Projected.blocks) = 1 => ret.markdown = ret.parts[b]

\* the table with the headers A and B, the row 1, 2 and no alignments was projected to the
\* three lines of the example
ThreeLinesProjected ==
    /\ ret.op = "preview"
    /\ Projected.blocks[1].content.headers = <<T_A, T_B>>
    /\ Projected.blocks[1].content.alignments = Undefined
    /\ [r \in DOMAIN Projected.blocks[1].content.rows |-> rows[Projected.blocks[1].content.rows[r]]]
       = << <<<<"1">>, <<"2">>>> >>
    /\ ret.markdown = T_threeLines

----------------------------------------------------------------------------
(* SpecSave: the debounced auto-save effect of AppProvider, while          *)
(* variables are added to the project                                      *)

\* the dependencies of the auto-save effect: [state.project, state.isLoading, state.saveStatus]
SaveDeps == <<project, isLoading, saveStatus>>

\* useEffect(() => { ... }, [state.project, state.isLoading, state.saveStatus]): React runs
\* the effect after the first render and after each render in which a dependency changed.
\* project.id is set by createDefaultProject and by every stored project.
AutoSaveEffect ==
    /\ effectDeps # SaveDeps
    /\ effectDeps' = SaveDeps
    /\ IF ~isLoading /\ saveStatus # "saving"
       THEN /\ saveTimeout' = <<project>>
            /\ saveStatus' = "unsaved"
       ELSE UNCHANGED <<saveTimeout, saveStatus>>
    /\ ret' = [op |-> "autoSaveEffect"]
    /\ UNCHANGED <<project, currentFileId, resolvedCache, dependencyGraph, served>>
    /\ UNCHANGED <<rows, isLoading, appError, saving, storage, exec, inlined, walk>>

\* the timer callback up to its await: dispatch SET_SAVE_STATUS 'saving' and the call of
\* storageService.saveProject(state.project) with the project of the render that set the timer
TimerFires ==
    /\ saveTimeout # <<>>
    /\ saveStatus' = "saving"
    /\ saving' = saveTimeout
    /\ saveTimeout' = <<>>
    /\ ret' = [op |-> "timerFires"]
    /\ UNCHANGED <<project, currentFileId, resolvedCache, dependencyGraph, served>>
    /\ UNCHANGED <<rows, isLoading, appError, storage, effectDeps, exec, inlined, walk>>

\* storageService.saveProject wrote the project; the callback dispatches 'saved'
SaveSucceeds ==
    /\ saving # <<>>
    /\ storage' = saving
    /\ saving' = <<>>
    /\ saveStatus' = "saved"
    /\ ret' = [op |-> "saveSucceeds"]
    /\ UNCHANGED <<project, currentFileId, resolvedCache, dependencyGraph, served>>
    /\ UNCHANGED <<rows, isLoading, appError, saveTimeout, effectDeps, exec, inlined, walk>>

\* storageService.saveProject threw: SET_ERROR, then SET_SAVE_STATUS 'unsaved'
SaveFails ==
    /\ saving # <<>>
    /\ saving' = <<>>
    /\ appError' = "Failed to save project"
    /\ saveStatus' = "unsaved"
    /\ ret' = [op |-> "saveFails"]
    /\ UNCHANGED <<project, currentFileId, resolvedCache, dependencyGraph, served>>
    /\ UNCHANGED <<rows, isLoading, saveTimeout, storage, effectDeps, exec, inlined, walk>>

NextSave == AddVariable \/ AutoSaveEffect \/ TimerFires \/ SaveSucceeds \/ SaveFails

SpecSave == Init /\ [][NextSave]_vars

\* React runs a pending effect, a timer that was set fires, and the write to localStorage ends
SpecSaveFair ==
    /\ SpecSave
    /\ WF_vars(AutoSaveEffect)
    /\ WF_vars(TimerFires)
    /\ WF_vars(SaveSucceeds \/ SaveFails)

\* C18: when the project is no longer changed and storageService.saveProject never fails,
\* the project is written to storage and saveStatus becomes 'saved' and stays 'saved'
AutoSaveSettles ==
    [](appError = Null) => <>[](saveStatus = "saved" /\ storage = <<project>>)

----------------------------------------------------------------------------
(* SpecExec: Header.handleExecutePrompt. The handler is an async function: *)
(* it reads state from the render in which the button was clicked, and     *)
(* its dispatches act on the state of the moment.                          *)

\* case 'ADD_BLOCK' without a position
reduceAddBlock(proj, fileId, block) ==
    LET F(file) == IF file.id = fileId THEN [file EXCEPT !.blocks = Append(@, block)] ELSE file
    IN  [proj EXCEPT !.files = [i \in 1..Len(proj.files) |-> F(proj.files[i])]]

\* the ids of the blocks of the project, and a fresh one (crypto.randomUUID())
BlockIds(proj) ==
    UNION {{proj.files[f].blocks[b].id : b \in 1..Len(proj.files[f].blocks)}
           : f \in 1..Len(proj.files)}

FreshBlockId(proj) == CHOOSE n \in 1..(Cardinality(BlockIds(proj)) + 1) : n \notin BlockIds(proj)

\* v.isOutput
IsOutput(variable) == "isOutput" \in DOMAIN variable /\ variable.isOutput

\* currentFile.blocks.filter(b => b.type === type)
BlocksOfType(file, type) == LET Is(block) == block.type = type IN SelectSeq(file.blocks, Is)

\* the schema is not empty: the first jsonschema block holds a text that is not blank, or
\* there are output variables to generate a schema from
HasSchema(proj, file) ==
    LET jsonSchemaBlocks == BlocksOfType(file, "jsonschema")
    IN  \/ /\ jsonSchemaBlocks # <<>>
           /\ IsText(jsonSchemaBlocks[1])
           /\ Trim(jsonSchemaBlocks[1].content.text) # <<>>
        \/ \E i \in 1..Len(proj.globalVariables) : IsOutput(proj.globalVariables[i])
        \/ \E i \in 1..Len(file.localVariables) : IsOutput(file.localVariables[i])

\* a response of the AI: its text and the variables array of the JSON it holds
Response(text, variables) == [text |-> text, variables |-> variables]

\* aiService.parseResponse(response).variables: a variable for each entry of the variables
\* array that has a key and a value, the value as a string
parseResponse(response) ==
    [i \in 1..Len(response.variables) |->
        [key |-> response.variables[i].key, value |-> response.variables[i].value,
         isOutput |-> TRUE]]

RECURSIVE StoreVariables(_, _, _, _, _)
\* variables.forEach(...): existingGlobalVar and existingLocalVar are looked up in the state
\* the handler closed over (seen), the dispatches act on proj
StoreVariables(proj, seen, fileId, variables, k) ==
    IF k > Len(variables) THEN proj
    ELSE LET gi == VarIndexByKey(seen.globalVariables, variables[k].key)
             locals == seen.files[FileIndexById(seen, fileId)].localVariables
             li == VarIndexByKey(locals, variables[k].key)
             updates == [value |-> variables[k].value, isOutput |-> TRUE]
         IN  StoreVariables(
                 IF gi # 0
                 THEN reduceUpdateVariable(proj, Null, seen.globalVariables[gi].id, updates)
                 ELSE IF li # 0
                 THEN reduceUpdateVariable(proj, fileId, locals[li].id, updates)
                 ELSE reduceAddVariable(proj, fileId,
                          [id |-> FreshId(proj), key |-> variables[k].key,
                           value |-> variables[k].value, isOutput |-> TRUE,
                           visibility |-> Undefined]),
                 seen, fileId, variables, k + 1)

\* the part of handleExecutePrompt after `await aiService.generateContent`: find or create
\* the Output block, store the response and the variables
StoreResponse(proj, seen, fileId, response) ==
    LET outputBlocks == BlocksOfType(seen.files[FileIndexById(seen, fileId)], "output")
        added == reduceAddBlock(proj, fileId,
                     Block(FreshBlockId(proj), Undefined, "output", TextContent(<<>>)))
        \* updatedFile = state.project.files.find(...): read from the state the handler
        \* closed over, which the dispatch of ADD_BLOCK does not change
        newOutputBlocks == BlocksOfType(seen.files[FileIndexById(seen, fileId)], "output")
    IN  IF outputBlocks # <<>>
        THEN StoreVariables(reduceUpdateBlock(proj, fileId, outputBlocks[1].id,
                                              TextContent(response.text)),
                            seen, fileId, parseResponse(response), 1)
        ELSE IF newOutputBlocks # <<>>
        THEN StoreVariables(reduceUpdateBlock(added, fileId, newOutputBlocks[1].id,
                                              TextContent(response.text)),
                            seen, fileId, parseResponse(response), 1)
        ELSE added

\* the handler ended: its finally block, or a return in front of the try block
ExecEnded(op, fileId, err, proj, response) ==
    /\ exec' = <<>>
    /\ isLoading' = FALSE
    /\ appError' = err
    /\ project' = proj
    /\ saveStatus' = IF proj # project THEN "unsaved" ELSE saveStatus
    /\ ret' = [op |-> op, fileId |-> fileId, response |-> response]
    /\ UNCHANGED <<currentFileId, resolvedCache, dependencyGraph, served>>
    /\ UNCHANGED <<rows, saveTimeout, saving, storage, effectDeps, inlined, walk>>

NoResponse == Response(<<>>, <<>>)

\* the handler goes on to its next await
ExecAwaits(pc, seen, fileId) ==
    /\ exec' = <<[pc |-> pc, project |-> seen, currentFileId |-> fileId]>>
    /\ isLoading' = TRUE
    /\ appError' = Null
    /\ ret' = [op |-> "execAwaits", fileId |-> fileId]
    /\ UNCHANGED <<project, currentFileId, saveStatus, resolvedCache, dependencyGraph, served>>
    /\ UNCHANGED <<rows, saveTimeout, saving, storage, effectDeps, inlined, walk>>

\* the click on Execute Prompt, up to `await import(...)`
ExecutePrompt ==
    /\ exec = <<>>
    /\ ~isLoading
    /\ IF currentFileId = Null
       THEN ExecEnded("execRefused", Null, "Please select a file first", project, NoResponse)
       ELSE IF FileIndexById(project, currentFileId) = 0
       THEN ExecEnded("execRefused", currentFileId, "Current file not found", project, NoResponse)
       ELSE ExecAwaits("import", project, currentFileId)

\* from the import to `await aiService.generateContent(...)`: the schema and the API key
ExecImported ==
    /\ exec # <<>>
    /\ exec[1].pc = "import"
    /\ \E apiKey \in BOOLEAN :
          IF ~HasSchema(exec[1].project,
                        exec[1].project.files[FileIndexById(exec[1].project, exec[1].currentFileId)])
          THEN ExecEnded("execRefused", exec[1].currentFileId, "Please add a JsonSchema block or define output variables",
                         project, NoResponse)
          ELSE IF ~apiKey
          THEN ExecEnded("execRefused", exec[1].currentFileId, "Please configure your Anthropic API key in AI Settings",
                         project, NoResponse)
          ELSE ExecAwaits("generate", exec[1].project, exec[1].currentFileId)

\* aiService.generateContent threw: catch, finally
ExecFails ==
    /\ exec # <<>>
    /\ exec[1].pc = "generate"
    /\ ExecEnded("execFailed", exec[1].currentFileId, "AI execution failed", project, NoResponse)

T_response == <<"{","v","a","r","i","a","b","l","e","s",":","[","t","i","t","l","e","=",
                "D","r","a","f","t","]","}">>
T_empty    == <<"{","v","a","r","i","a","b","l","e","s",":","[","]","}">>

\* what the AI answers: the variable title = Draft, or no variable
Responses ==
    {Response(T_response, <<[key |-> T_title, value |-> T_Draft]>>), Response(T_empty, <<>>)}

\* aiService.generateContent returned: the rest of the try block, finally
ExecFinishes ==
    /\ exec # <<>>
    /\ exec[1].pc = "generate"
    /\ \E response \in Responses :
          ExecEnded("execFinished", exec[1].currentFileId, Null,
                    StoreResponse(project, exec[1].project, exec[1].currentFileId, response),
                    response)

\* the blocks a file is loaded with: a schema, an output block, both or none
ExecBlocks ==
    {<<>>,
     <<Block(1, Undefined, "jsonschema", TextContent(T_title))>>,
     <<Block(1, Undefined, "jsonschema", TextContent(T_title)),
       Block(2, Undefined, "output", TextContent(<<>>))>>,
     <<Block(2, Undefined, "output", TextContent(<<>>))>>}

\* the variables title of the project: none, a global one, a local one of notes that is an
\* output variable
ExecVariables ==
    {[globals |-> <<>>, locals |-> <<>>],
     [globals |-> <<Variable(10, T_title, T_Spec, "public")>>, locals |-> <<>>],
     [globals |-> <<>>,
      locals |-> <<[id |-> 10, key |-> T_title, value |-> T_Spec, isOutput |-> TRUE,
                    visibility |-> Undefined]>>]}

\* LOAD_PROJECT_SUCCESS with a stored project
InitExec ==
    /\ \E blocks \in ExecBlocks, v \in ExecVariables :
          project = [files |-> << File("A", T_notes, v.locals, blocks),
                                  File("B", T_docs, <<>>, <<>>) >>,
                     globalVariables |-> v.globals]
    /\ currentFileId = Null
    /\ saveStatus = "saved"
    /\ resolvedCache = EmptyCache
    /\ dependencyGraph = [dependencies |-> <<>>, circularRefs |-> <<>>]
    /\ ret = [op |-> "init"]
    /\ served = EmptyCache
    /\ UiIdle

NextExec == SetCurrentFile \/ ExecutePrompt \/ ExecImported \/ ExecFails \/ ExecFinishes

SpecExec == InitExec /\ [][NextExec]_vars

\* the file has an Output block whose content is text
HoldsOutput(file, text) ==
    \E b \in 1..Len(file.blocks) :
        file.blocks[b].type = "output" /\ file.blocks[b].content = TextContent(text)

\* a global variable, or a local variable of the file, has the key and the value of v
HoldsVariable(proj, file, v) ==
    \/ \E i \in 1..Len(proj.globalVariables) :
          proj.globalVariables[i].key = v.key /\ proj.globalVariables[i].value = v.value
    \/ \E i \in 1..Len(file.localVariables) :
          file.localVariables[i].key = v.key /\ file.localVariables[i].value = v.value

\* C19: when handleExecutePrompt has ended with a response of the AI, an Output block of the
\* file it was started for holds the text of the response and every variable of the
\* response is a variable of the project with the value of the response, also when the file
\* had no Output block; and isLoading is false when the handler has ended, on every path
ExecutePromptStores ==
    /\ ret.op = "execFinished" =>
          /\ HoldsOutput(Projected, ret.response.text)
          /\ \A i \in 1..Len(ret.response.variables) :
                HoldsVariable(project, Projected, ret.response.variables[i])
    /\ ret.op \in {"execFinished", "execFailed", "execRefused"} => ~isLoading

----------------------------------------------------------------------------
(* SpecBlocks: buildDependencyGraph on a two-file project whose files hold  *)
(* several blocks with references                                            *)

MaxBlocks == 2     \* blocks per file under SpecBlocks

T_docsTitleUpperRef == FilenameRef(T_docs, T_TITLE)     \* {{docs.TITLE}}
T_notesTitleRef == FilenameRef(T_notes, T_title)        \* {{notes.title}}

BlockTexts == {T_docsTitleRef, T_docsTitleUpperRef, T_notesTitleRef}

\* a file with the public local variables title and TITLE and one paragraph per text
BlocksFile(id, name, base, texts) ==
    File(id, name,
         <<Variable(base + 1, T_title, T_Spec, "public"),
           Variable(base + 2, T_TITLE, T_Draft, "public")>>,
         [b \in 1..Len(texts) |-> Paragraph(b, texts[b])])

InitBlocks ==
    /\ \E ta, tb \in SeqsUpTo(BlockTexts, MaxBlocks) :
          project = [files |-> << BlocksFile("A", T_notes, 10, ta),
                                  BlocksFile("B", T_docs, 20, tb) >>,
                     globalVariables |-> <<>>]
    /\ currentFileId = "A"
    /\ saveStatus = "saved"
    /\ resolvedCache = EmptyCache
    /\ dependencyGraph = [dependencies |-> <<>>, circularRefs |-> <<>>]
    /\ ret = [op |-> "init"]
    /\ served = EmptyCache
    /\ UiIdle

NextBlocks == Build \/ ClearCache

SpecBlocks == InitBlocks /\ [][NextBlocks]_vars

\* the answers of resolveCrossFileReference, with an empty cache, to the references of all
\* blocks of a file, in block order
FileAnswers(proj, file) ==
    ResolveAll(FileRefsFrom(file, 1), 1, file.id, proj, EmptyCache, <<>>).refs

\* the references of the file with the id source that lead to the file with the id target
RefsBetween(proj, source, target) ==
    SelectSeq(FileAnswers(proj, proj.files[FileIndexById(proj, source)]),
              LAMBDA r : HasTarget(r) /\ r.resolvedFileId = target)

\* the parsed reference an answer was made from
Parsed(r) == [syntax |-> r.syntax, filePath |-> r.filePath, variableName |-> r.variableName]

\* C21: in the graph returned by buildDependencyGraph (called with an empty cache) no two
\* entries of dependencies have the same (sourceFileId, targetFileId), and the entry of a
\* pair carries all references from the source file to the target file, also when they sit
\* in different blocks of the source file.
OneEdgePerFilePair ==
    (ret.op = "build" /\ ret.cold) =>
        /\ \A d, e \in 1..Len(ret.graph.dependencies) :
              (/\ ret.graph.dependencies[d].sourceFileId = ret.graph.dependencies[e].sourceFileId
               /\ ret.graph.dependencies[d].targetFileId = ret.graph.dependencies[e].targetFileId)
                  => d = e
        /\ \A d \in 1..Len(ret.graph.dependencies) :
              \E refs \in {RefsBetween(project, ret.graph.dependencies[d].sourceFileId,
                                       ret.graph.dependencies[d].targetFileId)} :
                  /\ Len(ret.graph.dependencies[d].variableRefs) = Len(refs)
                  /\ \A i \in 1..Len(refs) :
                        Parsed(ret.graph.dependencies[d].variableRefs[i]) = Parsed(refs[i])

----------------------------------------------------------------------------
(* SpecPath: resolveFilePath on the paths of the three branches, in a       *)
(* three-file project                                                        *)

T_xDocs  == <<"x","/","d","o","c","s">>
T_xNotes == <<"x","/","n","o","t","e","s">>

\* './', '../', '/' and no prefix, before a name, a name in a directory, and a name no file has
PathPrefixes == {L_dotSlash, L_dotDotSlash, <<"/">>, <<>>}
PathTails == {T_docs, T_xDocs, T_xNotes, T_nofile}
Paths == {prefix \o tail : prefix \in PathPrefixes, tail \in PathTails}

\* the names the second file is given
PathNames == {T_docs, T_xDocs, T_guide}

InitPath ==
    /\ \E name \in PathNames :
          project = [files |-> << File("A", T_notes, <<>>, <<>>),
                                  File("B", name, <<>>, <<>>),
                                  File("C", T_docs, <<>>, <<>>) >>,
                     globalVariables |-> <<>>]
    /\ currentFileId = "A"
    /\ saveStatus = "saved"
    /\ resolvedCache = EmptyCache
    /\ dependencyGraph = [dependencies |-> <<>>, circularRefs |-> <<>>]
    /\ ret = [op |-> "init"]
    /\ served = EmptyCache
    /\ UiIdle

\* crossFileVariableService.resolveFilePath(currentFileId, relativePath, project)
ResolveFilePath ==
    \E fileId \in ProjectFileIds(project) \cup {UnknownFileId}, relativePath \in Paths :
        /\ ret' = [op |-> "resolveFilePath", fileId |-> fileId, path |-> relativePath,
                   out |-> resolveFilePath(fileId, relativePath, project)]
        /\ UNCHANGED <<project, currentFileId, saveStatus, resolvedCache, dependencyGraph,
                       served>>
        /\ UNCHANGED uiVars

NextPath == ResolveFilePath

SpecPath == InitPath /\ [][NextPath]_vars

\* the id of the first file of the project with the given name, or null
FirstNamed(proj, name) ==
    IF \A f \in 1..Len(proj.files) : proj.files[f].name # name THEN Null
    ELSE proj.files[CHOOSE f \in 1..Len(proj.files) :
                        /\ proj.files[f].name = name
                        /\ \A g \in 1..(f - 1) : proj.files[g].name # name].id

\* the part of a path that is compared with the file names: what follows './', the last
\* segment of a path that starts with '../', and otherwise the path without one leading '/'
Compared(path) ==
    IF StartsWith(path, L_dotSlash) THEN SubSeq(path, 3, Len(path))
    ELSE IF StartsWith(path, L_dotDotSlash) THEN LastSegment(path)
    ELSE IF StartsWith(path, <<"/">>) THEN SubSeq(path, 2, Len(path))
    ELSE path

\* C22 as stated: for a currentFileId of the project, resolveFilePath gives the id of the
\* first file whose name equals the last '/'-delimited segment of the path, or null, in all
\* three branches (so that two paths with the same last segment have the same result);
\* it gives null when currentFileId is not a file of the project.
BasenameDecides ==
    ret.op = "resolveFilePath" =>
        ret.out = IF ret.fileId \in ProjectFileIds(project)
                  THEN FirstNamed(project, LastSegment(ret.path))
                  ELSE Null

\* C22 amended: for a currentFileId of the project, resolveFilePath gives the id of the
\* first file whose name equals the last segment of a path that starts with '../', and
\* otherwise the whole path without its leading './' or its one leading '/', or null;
\* it gives null when currentFileId is not a file of the project.
RemainderDecides ==
    ret.op = "resolveFilePath" =>
        ret.out = IF ret.fileId \in ProjectFileIds(project)
                  THEN FirstNamed(project, Compared(ret.path))
                  ELSE Null

\* C22 witness: './x/docs' resolved in a project with the files docs and x/docs gives the
\* file x/docs, and not the file docs that '../x/docs' gives
DirectoryKept ==
    /\ ret.op = "resolveFilePath"
    /\ ret.fileId = "A"
    /\ ret.path = L_dotSlash \o T_xDocs
    /\ ret.out = "B"
    /\ resolveFilePath("A", L_dotDotSlash \o T_xDocs, project) = "C"

----------------------------------------------------------------------------
(* The projection of an embed block and of its source block *)

\* the embed blocks of the file whose source block is found and is not an embed block
EmbedsOfNative(proj, file) ==
    {b \in 1..Len(file.blocks) :
        /\ file.blocks[b].type = "embed"
        /\ SourceBlock(proj, file.blocks[b]) # NoBlock
        /\ SourceBlock(proj, file.blocks[b]).type # "embed"}

\* the kind of element the render tree holds for a block projected as itself
NativeTag(block, proj, heap) == RenderNode(block, proj, heap, NodeTexts(block, proj, heap)).tag

\* C23: for an embed block whose source block exists and is not itself an embed block, the
\* text the markdown projection emits for the embed block equals what it emits for the
\* source block as a block of its own type (heading prefix, table rows), and the render
\* tree holds the same kind of element as for the source block.
EmbedUsesNativeRules ==
    ret.op = "preview" =>
        \A b \in EmbedsOfNative(project, Projected) :
            /\ ret.parts[b] = BlockMarkdown(SourceBlock(project, Projected.blocks[b]),
                                            project, rows)
            /\ ret.tree[b].tag = NativeTag(SourceBlock(project, Projected.blocks[b]),
                                           project, rows)

----------------------------------------------------------------------------
(* The version counter of a block *)

\* the step is UPDATE_BLOCK with a content, or INLINE_EMBEDDED_BLOCK, on a block of the
\* project, and the content of the block says after the step something else than before
ChangesContent ==
    /\ ret'.op \in {"updateBlock", "editCell", "inline"}
    /\ FindBlock(project, ret'.fileId, ret'.blockId) # NoBlock
    /\ After(ret'.fileId, ret'.blockId) # NoBlock
    /\ ContentValue(After(ret'.fileId, ret'.blockId), rows')
          # ContentValue(FindBlock(project, ret'.fileId, ret'.blockId), rows)

\* C24: every action that changes the content of a block (UPDATE_BLOCK with a content
\* update, INLINE_EMBEDDED_BLOCK) strictly increases the version of that block, and no
\* action decreases the version of a block.
VersionCountsContents ==
    [][/\ ChangesContent =>
            After(ret'.fileId, ret'.blockId).version
                > FindBlock(project, ret'.fileId, ret'.blockId).version
       /\ \A f \in 1..Len(project.files) : \A b \in 1..Len(project.files[f].blocks) :
            After(project.files[f].id, project.files[f].blocks[b].id) # NoBlock =>
                After(project.files[f].id, project.files[f].blocks[b].id).version
                    >= project.files[f].blocks[b].version]_vars

----------------------------------------------------------------------------
(* SpecOrder: resolveContent on texts with two references, in a project     *)
(* whose values may hold the text of a reference                             *)

OrderTexts ==
    { T_docsTitleRef \o <<" ">> \o T_docsTitleUpperRef,
      T_docsTitleUpperRef \o <<" ">> \o T_docsTitleRef,
      T_docsTitleRef \o <<" ">> \o T_docsTitleRef,
      FilenameRef(T_docs, T_missing) \o <<" ">> \o T_docsTitleRef,
      FilePathRef(L_dotSlash \o T_docs, T_TITLE) \o <<" ">> \o T_docsTitleRef }

\* the values of the variables title and TITLE of docs: plain text, or the text of a reference
OrderValues == {T_Draft, T_docsTitleRef, T_docsTitleUpperRef}

InitOrder ==
    /\ \E text \in OrderTexts, lower \in OrderValues, upper \in OrderValues :
          project = [files |-> << File("A", T_notes, <<>>, <<Paragraph(1, text)>>),
                                  File("B", T_docs,
                                       <<Variable(21, T_title, lower, "public"),
                                         Variable(22, T_TITLE, upper, "public")>>,
                                       <<>>) >>,
                     globalVariables |-> <<>>]
    /\ currentFileId = "A"
    /\ saveStatus = "saved"
    /\ resolvedCache = EmptyCache
    /\ dependencyGraph = [dependencies |-> <<>>, circularRefs |-> <<>>]
    /\ ret = [op |-> "init"]
    /\ served = EmptyCache
    /\ UiIdle

NextOrder == ResolveContent \/ ClearCache

SpecOrder == InitOrder /\ [][NextOrder]_vars

\* the text resolveContent would return if its loop took the parsed references in the order
\* given by the permutation
ResolvedInOrder(content, fileId, proj, order) ==
    ResolveLoop([i \in DOMAIN order |-> parseCrossFileReferences(content)[order[i]]],
                1, content, fileId, proj, EmptyCache, <<>>).text

\* C25: the string returned by resolveContent is the same whatever the order in which the
\* parsed references are resolved and replaced, also when the resolved value of one
\* reference holds the text of another reference of the content.
OrderIndependent ==
    ret.op = "resolveContent" =>
        \A order \in Permutations(1..Len(parseCrossFileReferences(ret.content))) :
            ResolvedInOrder(ret.content, ret.fileId, project, order) = ret.text

----------------------------------------------------------------------------
(* SpecWalk: buildDependencyGraph with the depth-first search of            *)
(* detectCircularReferences taken call by call: the loop over the keys, the *)
(* calls of dfs for the neighbours of the node of the innermost frame, and  *)
(* the returns. A frame is [node, path, next]: the arguments of the call    *)
(* and the position of its forEach.                                         *)

MaxTargets == 2     \* files a file refers to under SpecWalk

\* a search that never finds a node in visited
VisitedNever(w, node) == FALSE

\* visited.has(node)
Visited(w, node) == node \in w.visited

\* a report that lists the whole path of the search, from its root on
CycleFromRoot(path, node) == path \o <<node>>

\* path.slice(cycleStart).concat([node]), for a node the path holds
Cycle(path, node) == Slice(path, IndexOf(path, node)) \o <<node>>

\* the call dfs(node, path) up to its forEach: a cycle is recorded for a node on the
\* recursion stack, a visited node is left, any other node is marked and gets a frame
\* (expanded lists the nodes that got a frame)
Enter(w, node, path) ==
    IF node \in w.recursionStack
    THEN IF IndexOf(path, node) # 0
         THEN [w EXCEPT !.cycles = Append(@, Cycle(path, node))]
         ELSE w
    ELSE IF Visited(w, node) THEN w
    ELSE [w EXCEPT !.visited = @ \cup {node},
                   !.recursionStack = @ \cup {node},
                   !.frames = Append(@, [node |-> node, path |-> path, next |-> 1]),
                   !.expanded = Append(@, node)]

\* the loops over the files and the blocks of buildDependencyGraph, and the locals of
\* detectCircularReferences before its loop over the keys
BuildStarts ==
    /\ walk = <<>>
    /\ \E acc \in {BuildFiles(project, 1, [dependencies |-> <<>>, fileRefs |-> EmptyFileRefs,
                                           cache |-> resolvedCache])} :
          /\ walk' = << [cold |-> resolvedCache = EmptyCache,
                         dependencies |-> acc.dependencies, fileRefs |-> acc.fileRefs,
                         root |-> 1, frames |-> <<>>, visited |-> {},
                         recursionStack |-> {}, cycles |-> <<>>, expanded |-> <<>>] >>
          /\ resolvedCache' = acc.cache
          /\ served' = acc.cache
    /\ ret' = [op |-> "building"]
    /\ UNCHANGED <<project, currentFileId, saveStatus, dependencyGraph>>
    /\ UNCHANGED <<rows, isLoading, appError, saveTimeout, saving, storage, effectDeps, exec,
                   inlined>>

\* what a step of the search leaves alone
WalkFrame ==
    /\ UNCHANGED <<project, currentFileId, saveStatus, resolvedCache, dependencyGraph, ret,
                   served>>
    /\ UNCHANGED <<rows, isLoading, appError, saveTimeout, saving, storage, effectDeps, exec,
                   inlined>>

\* Array.from(fileRefs.keys()).forEach(node => { if (!visited.has(node)) dfs(node, []) })
DfsRoot ==
    /\ walk # <<>>
    /\ walk[1].frames = <<>>
    /\ walk[1].root <= Len(walk[1].fileRefs.keys)
    /\ \E w \in {[walk[1] EXCEPT !.root = @ + 1]}, node \in {walk[1].fileRefs.keys[walk[1].root]} :
          walk' = << IF Visited(w, node) THEN w ELSE Enter(w, node, <<>>) >>
    /\ WalkFrame

\* neighbors.forEach(neighbor => dfs(neighbor, [...path, node])): the next neighbour of the
\* node of the innermost frame
DfsNeighbor ==
    /\ walk # <<>>
    /\ walk[1].frames # <<>>
    /\ \E top \in {walk[1].frames[Len(walk[1].frames)]} :
          /\ top.next <= Len(Neighbors(walk[1].fileRefs, top.node))
          /\ walk' = << Enter([walk[1] EXCEPT !.frames[Len(walk[1].frames)].next = @ + 1],
                              Neighbors(walk[1].fileRefs, top.node)[top.next],
                              Append(top.path, top.node)) >>
    /\ WalkFrame

\* recursionStack.delete(node) and the return of the innermost call of dfs
DfsReturn ==
    /\ walk # <<>>
    /\ walk[1].frames # <<>>
    /\ \E top \in {walk[1].frames[Len(walk[1].frames)]} :
          /\ top.next > Len(Neighbors(walk[1].fileRefs, top.node))
          /\ walk' = << [walk[1] EXCEPT !.recursionStack = @ \ {top.node},
                                        !.frames = SubSeq(@, 1, Len(@) - 1)] >>
    /\ WalkFrame

\* return cycles; this.dependencyGraph = { dependencies, circularRefs }; return
BuildReturns ==
    /\ walk # <<>>
    /\ walk[1].frames = <<>>
    /\ walk[1].root > Len(walk[1].fileRefs.keys)
    /\ dependencyGraph' = [dependencies |-> walk[1].dependencies,
                           circularRefs |-> walk[1].cycles]
    /\ ret' = [op |-> "build", cold |-> walk[1].cold, graph |-> dependencyGraph',
               fileRefs |-> walk[1].fileRefs, expanded |-> walk[1].expanded]
    /\ walk' = <<>>
    /\ UNCHANGED <<project, currentFileId, saveStatus, resolvedCache, served>>
    /\ UNCHANGED <<rows, isLoading, appError, saveTimeout, saving, storage, effectDeps, exec,
                   inlined>>

\* the sequences of at most n different members of S
Arrangements(S, n) ==
    {a \in SeqsUpTo(S, n) : \A i, j \in 1..Len(a) : i # j => a[i] # a[j]}

\* three files, each with the public variable title and one block per file it refers to
InitWalk ==
    /\ \E targets \in [1..Len(GraphIds) -> Arrangements(1..Len(GraphIds), MaxTargets)] :
          project = [files |-> [f \in 1..Len(GraphIds) |-> GraphFile(f, "public", targets[f])],
                     globalVariables |-> <<>>]
    /\ currentFileId = "A"
    /\ saveStatus = "saved"
    /\ resolvedCache = EmptyCache
    /\ dependencyGraph = [dependencies |-> <<>>, circularRefs |-> <<>>]
    /\ ret = [op |-> "init"]
    /\ served = EmptyCache
    /\ UiIdle

NextWalk == BuildStarts \/ DfsRoot \/ DfsNeighbor \/ DfsReturn \/ BuildReturns

SpecWalk == InitWalk /\ [][NextWalk]_vars

\* the search runs in one synchronous call: once started, each of its steps is taken
SpecWalkFair ==
    SpecWalk /\ WF_vars(DfsRoot \/ DfsNeighbor \/ DfsReturn \/ BuildReturns)

\* no file got a frame of dfs twice
ExpandedOnce(expanded) ==
    \A i, j \in 1..Len(expanded) : i # j => expanded[i] # expanded[j]

\* C26: buildDependencyGraph, detectCircularReferences included, terminates for every
\* project, also when files refer to each other in a cycle or a file refers to itself, and
\* the depth-first search expands each file at most once.
GraphAnalysisTerminates ==
    /\ [](walk # <<>> => ExpandedOnce(walk[1].expanded))
    /\ [](ret.op = "build" => ExpandedOnce(ret.expanded))
    /\ (walk # <<>>) ~> (walk = <<>> /\ ret.op = "build")

\* C26 witness: a build has returned for a project in which a file refers to itself and two
\* files refer to each other; all three files were expanded
CyclicProjectAnalysed ==
    /\ ret.op = "build"
    /\ walk = <<>>
    /\ Len(ret.expanded) = Len(GraphIds)
    /\ \E f \in 1..Len(GraphIds) : InSeq(GraphIds[f], Neighbors(ret.fileRefs, GraphIds[f]))
    /\ \E f, g \in 1..Len(GraphIds) :
          /\ f # g
          /\ InSeq(GraphIds[g], Neighbors(ret.fileRefs, GraphIds[f]))
          /\ InSeq(GraphIds[f], Neighbors(ret.fileRefs, GraphIds[g]))

----------------------------------------------------------------------------
(* The cycles of the adjacency map *)

\* the map holds the pair (a, b)
Edge(fileRefs, a, b) ==
    a \in DOMAIN fileRefs.adj /\ \E i \in 1..Len(fileRefs.adj[a]) : fileRefs.adj[a][i] = b

\* the nodes of the map: its keys and the members of its sets
Nodes(fileRefs) ==
    DOMAIN fileRefs.adj
    \cup UNION {{fileRefs.adj[a][i] : i \in 1..Len(fileRefs.adj[a])} : a \in DOMAIN fileRefs.adj}

RECURSIVE ReachedIn(_, _, _)
\* the nodes reached from a by 1..k pairs of the map
ReachedIn(fileRefs, a, k) ==
    IF k = 0 THEN {}
    ELSE LET near == ReachedIn(fileRefs, a, k - 1)
         IN  near \cup {b \in Nodes(fileRefs) :
                           Edge(fileRefs, a, b) \/ \E m \in near : Edge(fileRefs, m, b)}

\* the map holds a directed cycle (a pair (a, a) is one)
HasCycle(fileRefs) ==
    \E a \in Nodes(fileRefs) : a \in ReachedIn(fileRefs, a, Cardinality(Nodes(fileRefs)))

\* c is a closed walk of the map
ClosedWalk(fileRefs, c) ==
    /\ Len(c) >= 2
    /\ c[1] = c[Len(c)]
    /\ \A i \in 1..(Len(c) - 1) : Edge(fileRefs, c[i], c[i + 1])

\* C27: for the adjacency map built by buildDependencyGraph, circularRefs is non-empty if
\* and only if the map holds a directed cycle (self-loops included), and every reported
\* cycle is a closed walk of the map: its first and last elements are equal and each
\* consecutive pair is an edge.
CycleReportSoundComplete ==
    ret.op = "build" =>
        /\ (ret.graph.circularRefs # <<>>) <=> HasCycle(ret.fileRefs)
        /\ \A c \in 1..Len(ret.graph.circularRefs) :
              ClosedWalk(ret.fileRefs, ret.graph.circularRefs[c])

\* C27 witness: a returned graph whose report holds a self-loop and a cycle through all
\* three files
LoopAndRingReported ==
    /\ ret.op = "build"
    /\ \E c \in 1..Len(ret.graph.circularRefs) : Len(ret.graph.circularRefs[c]) = 2
    /\ \E c \in 1..Len(ret.graph.circularRefs) :
          Len(ret.graph.circularRefs[c]) = Len(GraphIds) + 1

----------------------------------------------------------------------------
(* The graph and the state of the cache *)

\* C28: for a fixed project buildDependencyGraph returns the same dependencies and the same
\* circularRefs whether the resolution cache is empty or holds entries for the references
\* of the project, as it does when buildDependencyGraph is called a second time.
GraphIgnoresCache ==
    ret.op = "build" =>
        /\ ret.graph.dependencies = buildDependencyGraph(project, EmptyCache).graph.dependencies
        /\ ret.graph.circularRefs = buildDependencyGraph(project, EmptyCache).graph.circularRefs

----------------------------------------------------------------------------
(* What resolveCrossFileReference writes into the cache *)

\* the cache with the one entry more that a call for key with the value value adds
WithEntry(cache, key, value) ==
    [k \in DOMAIN cache \cup {key} |-> IF k = key THEN value ELSE cache[k]]

\* C29: a call of resolveCrossFileReference that ends in 'error' or 'not-found' leaves
\* resolvedCache unchanged, a call that ends in 'resolved' without a cache hit adds exactly
\* the entry for its own key, and entries are removed only by clearCache; so a reference
\* that failed is not in the cache for its key, and a call whose key is not in the cache
\* resolves exactly when the current project holds a readable variable for the reference.
OnlySuccessesCached ==
    [][/\ ret'.op = "resolve" =>
            /\ ret'.out.status \in {"error", "not-found"} =>
                  /\ resolvedCache' = resolvedCache
                  /\ ret'.key \notin DOMAIN resolvedCache'
            /\ (ret'.out.status = "resolved" /\ ret'.key \notin DOMAIN resolvedCache) =>
                  resolvedCache' = WithEntry(resolvedCache, ret'.key, ret'.out.resolvedValue)
            /\ ret'.key \in DOMAIN resolvedCache => resolvedCache' = resolvedCache
            /\ ret'.key \notin DOMAIN resolvedCache =>
                  (ret'.out.status = "resolved" <=> Readable(ret'.ref, ret'.fileId, project'))
       /\ (\E k \in DOMAIN resolvedCache :
              k \notin DOMAIN resolvedCache' \/ resolvedCache'[k] # resolvedCache[k])
            => ret'.op = "clearCache"]_vars

\* C29 witness: a call that failed and left a cache with entries of other keys as it was,
\* for a reference the project holds no readable variable for
FailureLeftCache ==
    /\ ret.op = "resolve"
    /\ ret.out.status \in {"error", "not-found"}
    /\ resolvedCache # EmptyCache
    /\ ret.key \notin DOMAIN resolvedCache
    /\ ~Readable(ret.ref, ret.fileId, project)

----------------------------------------------------------------------------
(* What the status 'saved' says about the storage *)

\* the project the storage holds: the one written last, and before the first write the
\* stored project that was loaded
Persisted == IF storage = <<>> THEN StoredProject ELSE storage[1]

\* C30: in every reachable state of the auto-save logic, also when a project mutation is
\* dispatched while a save is in flight, saveStatus = 'saved' implies that the project most
\* recently written by storageService.saveProject equals the project in memory.
SavedMeansPersisted ==
    saveStatus = "saved" => Persisted = project

====
